---- MODULE Spec2Model ----
(***************************************************************************)
(* A model of the Mole Raycast extension: the engine-invocation layer of   *)
(* src/src/utils.ts (getMoPath, execMo, spawnMoStreaming,                  *)
(* confirmAndExecute), the streaming parser of the clean view              *)
(* (src/src/clean.tsx) and the purge scanner (src/src/purge.tsx).          *)
(*                                                                         *)
(* The module holds one specification per component.  Every specification *)
(* starts all components in their state after construction and moves only *)
(* its own component.                                                      *)
(***************************************************************************)
EXTENDS Integers, Sequences, FiniteSets, TLC

VARIABLES
    \* ---- utils.ts: getMoPath / execMo ----
    fsMo,          \* the engine paths that exist on disk (existsSync)
    cachedMoPath,  \* module-level cache of getMoPath, "" is null
    execPc,        \* position of the execMo call: idle, getMoPath, exec, done
    execArgs,      \* args of the execMo call in progress
    moLookup,      \* what the getMoPath of the call in progress did
    execOutcome,   \* how the child of the last exec ended (cause, stdout)
    execResult,    \* how the execMo promise settled
    execCalls,     \* number of execMo calls started
    fsChanges,     \* number of changes made to the disk between calls
    \* ---- utils.ts: one spawnMoStreaming invocation ----
    smAll,         \* the bytes the engine writes to stdout when it is left to finish
    smSent,        \* how many of them have arrived in 'data' events
    smBuffer,      \* let buffer: the decoded text after the last newline
    smLines,       \* the strings passed to onLine, in order
    smProc,        \* resolving, running, killed, closed, failed, notFound
    smPromise,     \* pending, resolved, rejected
    smTimer,       \* unset, armed, fired
    smSettledAt,   \* number of lines delivered when the promise settled, -1 before
    \* ---- purge.tsx: discoverPurgeTargets ----
    fsTree,        \* the directories below HOME, each a sequence of names
    pgPhase,       \* setup (the disk as the scan finds it), walking, done
    pgSearchPaths, \* searchPaths: the roots to walk, in order
    pgRoot,        \* index of the root being walked
    pgStack,       \* the active calls of findPurgeTargetsNative: dir, depth, entries left
    pgItems,       \* items: the results, each with the walk that pushed it
    pgReads,       \* the readdirSync calls made: walk and directory
    \* ---- clean.tsx: CleanCommand ----
    categories,         \* useState: the categories shown
    summary,            \* useState: <<>> is null, else one summary record
    isLoading,          \* useState
    error,              \* useState: "" is null
    scanStatus,         \* useState
    categoriesRef,      \* categoriesRef.current
    currentCategoryRef, \* currentCategoryRef.current: <<>> is null, else one category
    currentShared,      \* the object in currentCategoryRef is also the last one of categoriesRef
    currentScanIdRef,   \* currentScanIdRef.current
    scans,              \* the runDryRun calls so far, by scanId: engine process, position, lines seen
    \* ---- utils.ts: confirmAndExecute and the actions it gates ----
    calls,         \* the confirmAndExecute calls so far: action, captured paths, position, answer
    started,       \* the engine invocations and trash operations started, in order
    purgeItems,    \* purge.tsx useState items: the paths of the purge items listed
    trashed,       \* the paths that were moved to the trash
    refreshes,     \* how many times a view was reloaded after an action
    \* ---- utils.ts: the getMoPath calls of one process, which may overlap ----
    moCalls,       \* the getMoPath calls so far: position, result, what had succeeded before
    \* ---- clean.tsx: a size string through parseSizeToBytes and formatBytesShort ----
    sizeInput,     \* the size string given
    sizePc,        \* "input" before the two functions ran, "done" after
    sizeBytes,     \* parseSizeToBytes(sizeStr)
    sizeText,      \* formatBytesShort(sizeBytes)
    \* ---- clean.tsx: one scan fed a given stream of lines ----
    feedAll,       \* the lines the engine prints in this scan
    feed,          \* those of them not yet delivered
    \* ---- installer.tsx: isInstallerZip on one archive ----
    zipEntries,    \* the entry paths of the archive, as zipinfo -1 would list them
    zipPc,         \* "input" before isInstallerZip ran, "done" after
    zipListing,    \* how the listing command ended, and its stdout
    zipResult,     \* what isInstallerZip returned
    \* ---- utils.ts: stripAnsi on one text ----
    ansiText,      \* the text given, a sequence of characters
    ansiPc,        \* "input" before stripAnsi ran, "done" after
    ansiOut,       \* what stripAnsi returned
    \* ---- uninstall.tsx: UninstallCommand ----
    apps,          \* useState: the applications listed, by path
    unIsLoading,   \* useState isLoading of the uninstall view
    scanningApps,  \* useState: the paths whose leftovers are being scanned
    leftoversMap,  \* useState: path -> leftover files, with the fetch that wrote them
    displayMap,    \* useState: path -> leftovers display, with the fetch that wrote it
    fetches,       \* the fetchApps calls so far: position, toScan, index i, workers, scans settled
    \* ---- purge.tsx: PurgeCommand, scan and calculateSizes ----
    viewItems,     \* useState items: path, sizeBytes (unset: <<>>), isLoadingSize
    viewIsLoading, \* useState isLoading
    scanToast,     \* the failure toast of scan(), "" when none was shown
    initialItems,  \* calculateSizes: the list it was called with
    batchI,        \* calculateSizes: the loop variable i
    duProcs,       \* the du child processes, one per item: pending, running, or how it settled
    sizesPc,       \* scan: discovering, sizing, done
    \* ---- clean.tsx parseSizeToBytes and uninstall.tsx parseSizeString on one text ----
    parsedText,     \* the size string given to both parsers
    parsersPc,      \* input, done
    cleanBytes,     \* what parseSizeToBytes returned
    uninstallBytes, \* what parseSizeString returned
    \* ---- clean.tsx: getPathsForCategory ----
    listFile,      \* the lines of clean-list.txt, each a sequence of pieces
    listDisk,      \* the paths that exist
    listCategory,  \* categoryName
    listPc,        \* call, done
    listReadable,  \* whether readFileSync returned the content
    listResult,    \* the paths returned
    \* ---- uninstall.tsx: parseDryRunDetailsOutput ----
    detailsOutput, \* the lines of the engine's output
    detailsPc,     \* call, done
    detailsFound,  \* the applications returned, each with the line it came from
    \* status.tsx: the status view
    statusData,      \* data: "null" or "collected"
    statusIsLoading, \* isLoading
    statusToast,     \* title of the toast shown last, "" for none
    isFetchingRef,   \* isFetchingRef.current
    intervalRef,     \* intervalRef.current: "unset", "set" or "cleared"
    refreshCalls     \* the refresh calls so far: what triggered each and where it is

execVars == <<fsMo, cachedMoPath, execPc, execArgs, moLookup, execOutcome,
              execResult, execCalls, fsChanges>>

streamVars == <<smAll, smSent, smBuffer, smLines, smProc, smPromise, smTimer, smSettledAt>>

purgeVars == <<fsTree, pgPhase, pgSearchPaths, pgRoot, pgStack, pgItems, pgReads>>

cleanUi == <<categories, summary, isLoading, error, scanStatus, categoriesRef, currentCategoryRef,
             currentShared>>

cleanVars == <<cleanUi, currentScanIdRef, scans>>

confirmVars == <<calls, started, purgeItems, trashed, refreshes>>

moPathVars == <<moCalls>>

sizeVars == <<sizeInput, sizePc, sizeBytes, sizeText>>

feedVars == <<feedAll, feed>>

zipVars == <<zipEntries, zipPc, zipListing, zipResult>>

ansiVars == <<ansiText, ansiPc, ansiOut>>

uninstallVars == <<apps, unIsLoading, scanningApps, leftoversMap, displayMap, fetches>>

sizesVars == <<viewItems, viewIsLoading, scanToast, initialItems, batchI, duProcs, sizesPc>>

parsersVars == <<parsedText, parsersPc, cleanBytes, uninstallBytes>>

listVars == <<listFile, listDisk, listCategory, listPc, listReadable, listResult>>

detailsVars == <<detailsOutput, detailsPc, detailsFound>>

statusVars == <<statusData, statusIsLoading, statusToast, isFetchingRef, intervalRef, refreshCalls>>

vars == <<execVars, streamVars, purgeVars, cleanVars, confirmVars, moPathVars, sizeVars, feedVars, zipVars, ansiVars, uninstallVars, sizesVars, parsersVars, listVars, detailsVars, statusVars>>

(***************************************************************************)
(* Bounds of the model.                                                    *)
(***************************************************************************)
MaxExecCalls == 2
MaxOut == 2
MaxFsChanges == 1
MaxStreamLen == 3
MaxDirs == 4
MaxCustom == 1
MaxScans == 2
MaxLines == 3
MaxCalls == 2
MaxMoCalls == 3
MaxFeed == 4
MaxTail == 2
MaxAnsiLen == 6
MaxFetches == 2
MaxItems == 11
MaxFailures == 1
MaxNest == 4
MaxFileLines == 4
MaxDetailLines == 4
MaxApps == 6
MaxRefreshes == 5

----------------------------------------------------------------------------
(***************************************************************************)
(* Strings as sequences of characters, where the code looks inside them.   *)
(***************************************************************************)
IsSpace(c) == c \in {" ", "\n"}

RECURSIVE TrimLeft(_)
TrimLeft(s) ==
    IF s = <<>> THEN <<>>
    ELSE IF IsSpace(Head(s)) THEN TrimLeft(Tail(s)) ELSE s

RECURSIVE TrimRight(_)
TrimRight(s) ==
    IF s = <<>> THEN <<>>
    ELSE IF IsSpace(s[Len(s)]) THEN TrimRight(SubSeq(s, 1, Len(s) - 1)) ELSE s

\* String.prototype.trim
Trim(s) == TrimRight(TrimLeft(s))

\* Array.prototype.join(" ")
RECURSIVE JoinArgs(_)
JoinArgs(args) ==
    IF args = <<>> THEN ""
    ELSE IF Len(args) = 1 THEN args[1]
    ELSE args[1] \o " " \o JoinArgs(Tail(args))

SeqsUpTo(S, n) == UNION {[1..k -> S] : k \in 0..n}

----------------------------------------------------------------------------
(***************************************************************************)
(* utils.ts: getMoPath                                                     *)
(***************************************************************************)
MO_SEARCH_PATHS ==
    <<"/usr/local/bin/mo", "/opt/homebrew/bin/mo", "~/.local/bin/mo", "/opt/local/bin/mo">>

\* a location that is on PATH but not in the list
OtherMoPath == "/usr/bin/mo"

MoPaths == {MO_SEARCH_PATHS[i] : i \in 1..Len(MO_SEARCH_PATHS)} \cup {OtherMoPath}

\* execFileAsync("which", ["mo"]): it throws, or prints a path (or nothing)
WhichOutcomes ==
    {[threw |-> TRUE, stdout |-> ""]} \cup {[threw |-> FALSE, stdout |-> p] : p \in MoPaths \cup {""}}

NoLookup == [ok |-> FALSE, path |-> "", fromCache |-> FALSE, which |-> [threw |-> TRUE, stdout |-> ""],
             ranWhich |-> FALSE, probed |-> {}, disk |-> {}]

\* the for loop over MO_SEARCH_PATHS, from index i: the first existing candidate
RECURSIVE firstCandidate(_, _)
firstCandidate(i, fs) ==
    IF i > Len(MO_SEARCH_PATHS) THEN ""
    ELSE IF MO_SEARCH_PATHS[i] \in fs THEN MO_SEARCH_PATHS[i]
    ELSE firstCandidate(i + 1, fs)

\* the candidates the loop calls existsSync on
candidatesProbed(fs) ==
    {MO_SEARCH_PATHS[i] : i \in {j \in 1..Len(MO_SEARCH_PATHS) :
                                    \A k \in 1..(j - 1) : MO_SEARCH_PATHS[k] \notin fs}}

\* the which attempt of getMoPath: the trimmed output when it names an existing file
whichResolved(w, fs) ==
    IF ~w.threw /\ w.stdout # "" /\ w.stdout \in fs THEN w.stdout ELSE ""

\* getMoPath with the two strategies in the other order: the list, then which
getMoPath_listFirst(cache, w, fs) ==
    IF cache # "" THEN
        [ok |-> TRUE, path |-> cache, fromCache |-> TRUE, which |-> w, ranWhich |-> FALSE, probed |-> {},
         disk |-> fs]
    ELSE IF firstCandidate(1, fs) # "" THEN
        [ok |-> TRUE, path |-> firstCandidate(1, fs), fromCache |-> FALSE, which |-> w, ranWhich |-> FALSE,
         probed |-> candidatesProbed(fs), disk |-> fs]
    ELSE
        [ok |-> whichResolved(w, fs) # "", path |-> whichResolved(w, fs), fromCache |-> FALSE, which |-> w,
         ranWhich |-> TRUE, probed |-> candidatesProbed(fs) \cup {w.stdout}, disk |-> fs]

\* one call of getMoPath with cache value cache, which outcome w, disk fs
getMoPath(cache, w, fs) ==
    IF cache # "" THEN
        [ok |-> TRUE, path |-> cache, fromCache |-> TRUE, which |-> w, ranWhich |-> FALSE, probed |-> {},
         disk |-> fs]
    ELSE IF whichResolved(w, fs) # "" THEN
        [ok |-> TRUE, path |-> whichResolved(w, fs), fromCache |-> FALSE, which |-> w, ranWhich |-> TRUE,
         probed |-> {w.stdout}, disk |-> fs]
    ELSE
        LET c == firstCandidate(1, fs)
            whichProbe == IF ~w.threw /\ w.stdout # "" THEN {w.stdout} ELSE {}
        IN  [ok |-> c # "", path |-> c, fromCache |-> FALSE, which |-> w, ranWhich |-> TRUE,
             probed |-> whichProbe \cup candidatesProbed(fs), disk |-> fs]

(***************************************************************************)
(* utils.ts: execMo                                                        *)
(***************************************************************************)
ArgSets == {<<"clean">>, <<"optimize">>, <<"uninstall", "--batch", "/Applications/A.app">>}

OutChars == {"a", " ", "\n"}

\* How the child of child_process.exec can end.  stderr is always empty:
\* the command line ends in 2>/dev/null.
ExecCauses == {"exit0", "exitNonZero", "timeout", "maxBuffer"}

ExecOutcomes ==
    {o \in [cause : ExecCauses, stdout : SeqsUpTo(OutChars, MaxOut)] :
        \* the cap is exceeded by stdout only, which is then cut at the cap
        o.cause = "maxBuffer" => Len(o.stdout) = MaxOut}

NoOutcome == [cause |-> "none", stdout |-> <<>>]
NoResult == [kind |-> "none", stdout |-> <<>>, message |-> ""]

\* the error child_process.exec rejects with
execError(o) ==
    [stdout |-> o.stdout,
     stderr |-> "",
     message |-> IF o.cause = "maxBuffer" THEN "stdout maxBuffer length exceeded"
                 ELSE "Command failed"]

\* the catch block of execMo without the trim: any captured stdout is returned
execMoCatch_noTrim(args, err) ==
    IF err.stdout # <<>> THEN
        [kind |-> "returned", stdout |-> err.stdout, message |-> ""]
    ELSE
        [kind |-> "rejected", stdout |-> <<>>,
         message |-> "mo " \o JoinArgs(args) \o " failed: " \o err.message]

\* the catch block of execMo
execMoCatch(args, err) ==
    IF err.stdout # <<>> /\ Len(Trim(err.stdout)) > 0 THEN
        [kind |-> "returned", stdout |-> err.stdout, message |-> ""]
    ELSE
        LET detail == IF err.stderr # "" THEN err.stderr ELSE err.message
        IN  [kind |-> "rejected", stdout |-> <<>>,
             message |-> "mo " \o JoinArgs(args) \o " failed: " \o detail]

\* the try block of execMo, given how the child ended
execMoSettle(args, o) ==
    IF o.cause = "exit0" THEN [kind |-> "returned", stdout |-> o.stdout, message |-> ""]
    ELSE execMoCatch(args, execError(o))

ExecInit ==
    /\ fsMo \in SUBSET MoPaths
    /\ cachedMoPath = ""
    /\ execPc = "idle"
    /\ execArgs = <<>>
    /\ moLookup = NoLookup
    /\ execOutcome = NoOutcome
    /\ execResult = NoResult
    /\ execCalls = 0
    /\ fsChanges = 0

\* the layer at rest, in the specifications of the other components
ExecIdle ==
    /\ fsMo = {}
    /\ cachedMoPath = ""
    /\ execPc = "idle"
    /\ execArgs = <<>>
    /\ moLookup = NoLookup
    /\ execOutcome = NoOutcome
    /\ execResult = NoResult
    /\ execCalls = 0
    /\ fsChanges = 0

ExecFrame == UNCHANGED <<streamVars, purgeVars, cleanVars, confirmVars, moPathVars, sizeVars, feedVars, zipVars, ansiVars, uninstallVars, sizesVars, parsersVars, listVars, detailsVars, statusVars>>

\* execMo(args) is called
ExecMoCall(args) ==
    /\ execPc \in {"idle", "done"}
    /\ execCalls < MaxExecCalls
    /\ execCalls' = execCalls + 1
    /\ execPc' = "getMoPath"
    /\ execArgs' = args
    /\ moLookup' = NoLookup
    /\ execOutcome' = NoOutcome
    /\ execResult' = NoResult
    /\ UNCHANGED <<fsMo, cachedMoPath, fsChanges>>
    /\ ExecFrame

\* await getMoPath(): outside the try block, so its error is the rejection
ExecMoGetPath(w) ==
    /\ execPc = "getMoPath"
    /\ LET r == getMoPath(cachedMoPath, w, fsMo)
       IN  /\ moLookup' = r
           /\ cachedMoPath' = IF r.ok THEN r.path ELSE cachedMoPath
           /\ IF r.ok
              THEN /\ execPc' = "exec"
                   /\ execResult' = execResult
              ELSE /\ execPc' = "done"
                   /\ execResult' = [kind |-> "rejected", stdout |-> <<>>, message |-> "Mole (mo) not installed"]
    /\ UNCHANGED <<fsMo, execArgs, execOutcome, execCalls, fsChanges>>
    /\ ExecFrame

\* await execAsync(command, {timeout, maxBuffer}) settles
ExecMoSettle(o) ==
    /\ execPc = "exec"
    /\ execOutcome' = o
    /\ execResult' = execMoSettle(execArgs, o)
    /\ execPc' = "done"
    /\ moLookup' = NoLookup
    /\ UNCHANGED <<fsMo, cachedMoPath, execArgs, execCalls, fsChanges>>
    /\ ExecFrame

\* the engine is installed, moved or removed between two calls
FsMoChange(p) ==
    /\ execPc = "done"
    /\ execCalls < MaxExecCalls
    /\ fsChanges < MaxFsChanges
    /\ fsChanges' = fsChanges + 1
    /\ fsMo' = IF p \in fsMo THEN fsMo \ {p} ELSE fsMo \cup {p}
    /\ UNCHANGED <<cachedMoPath, execPc, execArgs, moLookup, execOutcome, execResult, execCalls>>
    /\ ExecFrame

NextExec ==
    \/ \E args \in ArgSets : ExecMoCall(args)
    \/ \E w \in WhichOutcomes : ExecMoGetPath(w)
    \/ \E o \in ExecOutcomes : ExecMoSettle(o)
    \/ \E p \in MoPaths : FsMoChange(p)


----------------------------------------------------------------------------
(***************************************************************************)
(* utils.ts: spawnMoStreaming.  stdout is a sequence of bytes; "C3" "A9"   *)
(* are the two bytes of one character outside ASCII.                       *)
(***************************************************************************)
ReplacementChar == "FFFD"

StreamChars == {"a", " ", "\n", "e'"}

\* the UTF-8 bytes of a text
RECURSIVE Encode(_)
Encode(text) ==
    IF text = <<>> THEN <<>>
    ELSE (IF Head(text) = "e'" THEN <<"C3", "A9">> ELSE <<Head(text)>>) \o Encode(Tail(text))

\* Buffer.prototype.toString(): an incomplete or stray byte becomes U+FFFD
RECURSIVE toString(_)
toString(bytes) ==
    IF bytes = <<>> THEN <<>>
    ELSE IF Head(bytes) = "C3" THEN
        IF Len(bytes) >= 2 /\ bytes[2] = "A9"
        THEN <<"e'">> \o toString(Tail(Tail(bytes)))
        ELSE <<ReplacementChar>> \o toString(Tail(bytes))
    ELSE IF Head(bytes) = "A9" THEN <<ReplacementChar>> \o toString(Tail(bytes))
    ELSE <<Head(bytes)>> \o toString(Tail(bytes))

\* String.prototype.split("\n"): at least one piece, the last one is the
\* text after the last newline
RECURSIVE split(_)
split(text) ==
    IF \A i \in 1..Len(text) : text[i] # "\n" THEN <<text>>
    ELSE LET i == CHOOSE j \in 1..Len(text) :
                      text[j] = "\n" /\ \A k \in 1..(j - 1) : text[k] # "\n"
         IN  <<SubSeq(text, 1, i - 1)>> \o split(SubSeq(text, i + 1, Len(text)))

\* resolve() and reject() of the promise: only the first call counts
resolve(promise) == IF promise = "pending" THEN "resolved" ELSE promise
reject(promise) == IF promise = "pending" THEN "rejected" ELSE promise

\* the 'data' handler: the lines it passes to onLine and the buffer it keeps
onData(buffer, chunk) ==
    LET pieces == split(buffer \o toString(chunk))
    IN  [lines |-> SubSeq(pieces, 1, Len(pieces) - 1), buffer |-> pieces[Len(pieces)]]

\* the 'close' handler: the line it flushes, if any
onClose(buffer) == IF Trim(buffer) # <<>> THEN <<buffer>> ELSE <<>>

\* the timeout callback that rejects instead of resolving
onTimeout_rejects(proc, promise) ==
    [proc |-> IF proc = "running" THEN "killed" ELSE proc, promise |-> reject(promise)]

\* the timeout callback: proc.kill(); resolve()
onTimeout(proc, promise) ==
    [proc |-> IF proc = "running" THEN "killed" ELSE proc, promise |-> resolve(promise)]

settledAt(promise, newPromise, at, n) ==
    IF promise = "pending" /\ newPromise # "pending" THEN n ELSE at

StreamInit ==
    /\ smAll \in {Encode(t) : t \in SeqsUpTo(StreamChars, MaxStreamLen)}
    /\ smSent = 0
    /\ smBuffer = <<>>
    /\ smLines = <<>>
    /\ smProc = "resolving"
    /\ smPromise = "pending"
    /\ smTimer = "unset"
    /\ smSettledAt = -1

\* no invocation, in the specifications of the other components
StreamIdle ==
    /\ smAll = <<>>
    /\ smSent = 0
    /\ smBuffer = <<>>
    /\ smLines = <<>>
    /\ smProc = "resolving"
    /\ smPromise = "pending"
    /\ smTimer = "unset"
    /\ smSettledAt = -1

StreamFrame == UNCHANGED <<execVars, purgeVars, cleanVars, confirmVars, moPathVars, sizeVars, feedVars, zipVars, ansiVars, uninstallVars, sizesVars, parsersVars, listVars, detailsVars, statusVars>>

\* await getMoPath() throws: reject(err); return
SmNotFound ==
    /\ smProc = "resolving"
    /\ smProc' = "notFound"
    /\ smPromise' = reject(smPromise)
    /\ smSettledAt' = settledAt(smPromise, smPromise', smSettledAt, Len(smLines))
    /\ UNCHANGED <<smAll, smSent, smBuffer, smLines, smTimer>>
    /\ StreamFrame

\* spawn(moPath, args, ...), the handlers are attached and the timer is set
SmSpawn ==
    /\ smProc = "resolving"
    /\ smProc' = "running"
    /\ smTimer' = "armed"
    /\ UNCHANGED <<smAll, smSent, smBuffer, smLines, smPromise, smSettledAt>>
    /\ StreamFrame

\* the 'error' event: the process could not be started
SmError ==
    /\ smProc = "running"
    /\ smSent = 0
    /\ smProc' = "failed"
    /\ smPromise' = reject(smPromise)
    /\ smSettledAt' = settledAt(smPromise, smPromise', smSettledAt, Len(smLines))
    /\ UNCHANGED <<smAll, smSent, smBuffer, smLines, smTimer>>
    /\ StreamFrame

\* a 'data' event with the next n bytes of stdout
SmData(n) ==
    /\ smProc \in {"running", "killed"}
    /\ smSent + n <= Len(smAll)
    /\ LET r == onData(smBuffer, SubSeq(smAll, smSent + 1, smSent + n))
       IN  /\ smBuffer' = r.buffer
           /\ smLines' = smLines \o r.lines
    /\ smSent' = smSent + n
    /\ UNCHANGED <<smAll, smProc, smPromise, smTimer, smSettledAt>>
    /\ StreamFrame

\* the 'close' event: a running process has written everything, a killed one
\* closes wherever it was
SmClose ==
    /\ \/ smProc = "running" /\ smSent = Len(smAll)
       \/ smProc = "killed"
    /\ smLines' = smLines \o onClose(smBuffer)
    /\ smProc' = "closed"
    /\ smPromise' = resolve(smPromise)
    /\ smSettledAt' = settledAt(smPromise, smPromise', smSettledAt, Len(smLines'))
    /\ UNCHANGED <<smAll, smSent, smBuffer, smTimer>>
    /\ StreamFrame

\* the setTimeout callback, 300 s after the spawn; the timer is never cleared
SmTimeout ==
    /\ smTimer = "armed"
    /\ smTimer' = "fired"
    /\ LET r == onTimeout(smProc, smPromise)
       IN  /\ smProc' = r.proc
           /\ smPromise' = r.promise
    /\ smSettledAt' = settledAt(smPromise, smPromise', smSettledAt, Len(smLines))
    /\ UNCHANGED <<smAll, smSent, smBuffer, smLines>>
    /\ StreamFrame

NextStream ==
    \/ SmNotFound
    \/ SmSpawn
    \/ SmError
    \/ \E n \in 1..(MaxStreamLen * 2) : SmData(n)
    \/ SmClose
    \/ SmTimeout


----------------------------------------------------------------------------
(***************************************************************************)
(* purge.tsx: findPurgeTargetsNative and discoverPurgeTargets.  A path is  *)
(* the sequence of directory names below HOME; HOME itself is <<>>.  Only  *)
(* directories are on the model's disk: the walk skips every other entry.  *)
(***************************************************************************)
searchDirs == <<"www", "dev", "Projects", "GitHub", "Code", "Workspace", "Repos", "Development", "">>

targetNames ==
    {"node_modules", "target", "build", "dist", "vendor", "DerivedData", ".next", ".nuxt",
     ".vercel", ".svelte-kit", ".astro"}

maxDepth == 4

\* the directory names on the model's disk
DirNames == {"Projects", "app", "node_modules", "Library", "System", ".git", ".next"}

\* the names of the directories made one at a time before a scan
ProjectDirNames == {"Projects", "app", "node_modules"}

\* name.startsWith(".")
startsWithDot(name) ==
    name \in {".git", ".next", ".nuxt", ".vercel", ".svelte-kit", ".astro"}

\* path.join(home, d) for an entry of searchDirs
joinHome(d) == IF d = "" THEN <<>> ELSE <<d>>

\* fs.existsSync
existsSync(path, tree) == path = <<>> \/ path \in tree

\* the directory entries of dir
readdirSync(dir, tree) ==
    {name \in DirNames : Append(dir, name) \in tree}

\* path.basename(dir); the model does not name HOME
basename(dir) == IF dir = <<>> THEN "~" ELSE dir[Len(dir)]

\* a test that passes over the hidden directories only
skipped_onlyHidden(name) == startsWithDot(name) /\ name \notin targetNames

\* the entries the loop passes over (purge.tsx:182)
skipped(name) ==
    (startsWithDot(name) /\ name \notin targetNames) \/ name = "Library" \/ name = "System"

\* the entries pushed to results
isTarget(name) == ~skipped(name) /\ name \in targetNames

\* a walk that records a target and keeps digging below it
descends_intoTargets(name) == ~skipped(name)

\* the entries the walk recurses into
descends(name) == ~skipped(name) /\ name \notin targetNames

\* a call findPurgeTargetsNative(dir, depth, ...) as far as its readdirSync
enter(stack, reads, walk, dir, depth) ==
    IF depth > maxDepth THEN [stack |-> stack, reads |-> reads]
    ELSE [stack |-> Append(stack, [dir |-> dir, depth |-> depth, todo |-> readdirSync(dir, fsTree)]),
          reads |-> reads \cup {[walk |-> walk, dir |-> dir]}]

\* the existing entries of searchDirs, under HOME
conventionalPaths ==
    LET idx == {i \in 1..Len(searchDirs) : existsSync(joinHome(searchDirs[i]), fsTree)}
        f[i \in 0..Len(searchDirs)] ==
            IF i = 0 THEN <<>>
            ELSE IF i \in idx THEN Append(f[i - 1], joinHome(searchDirs[i])) ELSE f[i - 1]
    IN  f[Len(searchDirs)]

\* the loop over the lines of purge_paths
RECURSIVE addCustomPaths(_, _)
addCustomPaths(paths, custom) ==
    IF custom = <<>> THEN paths
    ELSE LET p == Head(custom)
             included == \E i \in 1..Len(paths) : paths[i] = p
         IN  addCustomPaths(IF existsSync(p, fsTree) /\ ~included THEN Append(paths, p) ELSE paths,
                            Tail(custom))

PurgeInit ==
    /\ fsTree = {}
    /\ pgPhase = "setup"
    /\ pgSearchPaths = <<>>
    /\ pgRoot = 0
    /\ pgStack = <<>>
    /\ pgItems = <<>>
    /\ pgReads = {}

PurgeIdle == PurgeInit

PurgeFrame == UNCHANGED <<execVars, streamVars, cleanVars, confirmVars, moPathVars, sizeVars, feedVars, zipVars, ansiVars, uninstallVars, sizesVars, parsersVars, listVars, detailsVars, statusVars>>

\* the disk before the scan: one more directory
PgMkdir(parent, name) ==
    /\ pgPhase = "setup"
    /\ Cardinality(fsTree) < MaxDirs
    /\ existsSync(parent, fsTree)
    /\ Append(parent, name) \notin fsTree
    /\ fsTree' = fsTree \cup {Append(parent, name)}
    /\ UNCHANGED <<pgPhase, pgSearchPaths, pgRoot, pgStack, pgItems, pgReads>>
    /\ PurgeFrame

\* discoverPurgeTargets up to the first call of the walk; custom holds the
\* lines of ~/.config/mole/purge_paths
PgDiscover(custom) ==
    /\ pgPhase = "setup"
    /\ LET paths == addCustomPaths(conventionalPaths, custom)
           r == enter(<<>>, {}, 1, paths[1], 1)
       IN  /\ pgSearchPaths' = paths
           /\ pgRoot' = 1
           /\ pgStack' = r.stack
           /\ pgReads' = r.reads
    /\ pgPhase' = "walking"
    /\ UNCHANGED <<fsTree, pgItems>>
    /\ PurgeFrame

\* one turn of the for loop of the innermost call, on the entry name
PgVisit(name) ==
    /\ pgPhase = "walking"
    /\ pgStack # <<>>
    /\ LET top == pgStack[Len(pgStack)]
           fullPath == Append(top.dir, name)
           rest == [pgStack EXCEPT ![Len(pgStack)].todo = top.todo \ {name}]
       IN  /\ name \in top.todo
           /\ pgItems' = IF isTarget(name)
                         THEN Append(pgItems, [name |-> name, path |-> fullPath,
                                               project |-> basename(top.dir), walk |-> pgRoot])
                         ELSE pgItems
           /\ IF descends(name)
              THEN LET r == enter(rest, pgReads, pgRoot, fullPath, top.depth + 1)
                   IN  pgStack' = r.stack /\ pgReads' = r.reads
              ELSE pgStack' = rest /\ pgReads' = pgReads
    /\ UNCHANGED <<fsTree, pgPhase, pgSearchPaths, pgRoot>>
    /\ PurgeFrame

\* the for loop of the innermost call is over: the call returns
PgReturn ==
    /\ pgPhase = "walking"
    /\ pgStack # <<>>
    /\ pgStack[Len(pgStack)].todo = {}
    /\ pgStack' = SubSeq(pgStack, 1, Len(pgStack) - 1)
    /\ UNCHANGED <<fsTree, pgPhase, pgSearchPaths, pgRoot, pgItems, pgReads>>
    /\ PurgeFrame

\* the walk of a root is over: the next root, or return items
PgNextRoot ==
    /\ pgPhase = "walking"
    /\ pgStack = <<>>
    /\ IF pgRoot < Len(pgSearchPaths)
       THEN LET r == enter(<<>>, pgReads, pgRoot + 1, pgSearchPaths[pgRoot + 1], 1)
            IN  /\ pgRoot' = pgRoot + 1
                /\ pgStack' = r.stack
                /\ pgReads' = r.reads
                /\ pgPhase' = pgPhase
       ELSE /\ pgPhase' = "done"
            /\ UNCHANGED <<pgRoot, pgStack, pgReads>>
    /\ UNCHANGED <<fsTree, pgSearchPaths, pgItems>>
    /\ PurgeFrame

\* the lines purge_paths can hold
CustomPaths == SeqsUpTo(fsTree \cup {<<"missing">>}, MaxCustom)

NextPurge ==
    \/ \E parent \in fsTree \cup {<<>>}, name \in ProjectDirNames : PgMkdir(parent, name)
    \/ \E custom \in CustomPaths : PgDiscover(custom)
    \/ \E name \in DirNames : PgVisit(name)
    \/ PgReturn
    \/ PgNextRoot

----------------------------------------------------------------------------
(***************************************************************************)
(* clean.tsx: the size helpers.  A size string "<n><unit>" is the record   *)
(* of its digits n, the number dec of digits after the point and its unit: *)
(* "1.20GB" is [n |-> 120, dec |-> 2, unit |-> "GB"].  A byte count is     *)
(* kept exactly, as hundredths of a byte written in base 1024: b[k] counts *)
(* 1024^k / 100 bytes.                                                     *)
(***************************************************************************)
BYTES_PER_KB == 1024

NoSize == [n |-> 0, dec |-> 0, unit |-> ""]

Size(n, dec, unit) == [n |-> n, dec |-> dec, unit |-> unit]

ZeroBytes == [k \in 0..4 |-> 0]

\* String.prototype.toUpperCase, on the units
toUpperCase(unit) ==
    CASE unit = "b" -> "B" [] unit = "kb" -> "KB" [] unit = "mb" -> "MB"
      [] unit = "gb" -> "GB" [] unit = "tb" -> "TB" [] OTHER -> unit

\* the exponent k of multipliers[unit] = 1024^k; an unknown unit counts as 1
multiplierExp(unit) ==
    CASE unit = "KB" -> 1 [] unit = "MB" -> 2 [] unit = "GB" -> 3 [] unit = "TB" -> 4 [] OTHER -> 0

parseSizeToBytes(sizeStr) ==
    IF sizeStr = NoSize THEN ZeroBytes
    ELSE LET value100 == IF sizeStr.dec = 0 THEN sizeStr.n * 100
                         ELSE IF sizeStr.dec = 1 THEN sizeStr.n * 10 ELSE sizeStr.n
             e == multiplierExp(toUpperCase(sizeStr.unit))
         IN  [k \in 0..4 |-> IF k = e THEN value100 ELSE 0]

bytesPositive(b) == \E k \in 0..4 : b[k] > 0

bytesPlus(a, b) == [k \in 0..4 |-> a[k] + b[k]]

\* the base-1024 digits of a byte count (the top one takes what is left)
digits(b) ==
    LET carry[k \in 0..4] == IF k = 0 THEN 0 ELSE (b[k - 1] + carry[k - 1]) \div BYTES_PER_KB
    IN  [k \in 0..4 |-> IF k = 4 THEN b[4] + carry[4] ELSE (b[k] + carry[k]) % BYTES_PER_KB]

\* a number of hundredths as JavaScript prints it
plainNumber(n100, unit) ==
    IF n100 % 100 = 0 THEN Size(n100 \div 100, 0, unit)
    ELSE IF n100 % 10 = 0 THEN Size(n100 \div 10, 1, unit) ELSE Size(n100, 2, unit)

formatBytesShort(bytes) ==
    LET d == digits(bytes)
        gb100 == d[4] * BYTES_PER_KB + d[3]
        mb100 == d[3] * BYTES_PER_KB + d[2]
        kb100 == d[2] * BYTES_PER_KB + d[1]
        b100 == d[1] * BYTES_PER_KB + d[0]
    IN  IF gb100 >= 100 THEN Size((gb100 + 5) \div 10, 1, "GB")
        ELSE IF mb100 >= 100 THEN Size((mb100 + 5) \div 10, 1, "MB")
        ELSE IF kb100 >= 100 THEN Size((kb100 + 50) \div 100, 0, "KB")
        ELSE plainNumber(b100, "B")

RECURSIVE sumSizes(_)
sumSizes(items) ==
    IF items = <<>> THEN ZeroBytes
    ELSE bytesPlus(parseSizeToBytes(Head(items).size), sumSizes(Tail(items)))

\* a finalizeCategorySize that writes the sum whatever the sizes are
finalizeCategorySize_always(category) ==
    [category EXCEPT !.totalSize = formatBytesShort(sumSizes(category.items))]

\* finalizeCategorySize: the category with its total brought up to date
finalizeCategorySize(category) ==
    IF \E i \in 1..Len(category.items) : bytesPositive(parseSizeToBytes(category.items[i].size))
    THEN [category EXCEPT !.totalSize = formatBytesShort(sumSizes(category.items))]
    ELSE category

(***************************************************************************)
(* clean.tsx: the lines of `mo clean --dry-run`.  A line is given by what  *)
(* the patterns of the parser look at: the glyph it starts with after      *)
(* stripAnsi and trim, its text, the ", <size> dry" ending, the            *)
(* "· would <outcome>" ending and the fields of the summary template.      *)
(***************************************************************************)
Line(glyph, text, size, would, sum) ==
    [glyph |-> glyph, text |-> text, size |-> size, would |-> would, sum |-> sum]

NoSum == [size |-> NoSize, items |-> "", cats |-> ""]

HeaderLine(name) == Line("HEADER", name, NoSize, "", NoSum)
DryLine(text, size) == Line("ARROW", text, size, "", NoSum)
WouldLine(text, outcome) == Line("ARROW", text, NoSize, outcome, NoSum)
PlainLine(text) == Line("ARROW", text, NoSize, "", NoSum)
ProgressLine(text) == Line("BULLET", text, NoSize, "", NoSum)
OtherLine(glyph, text) == Line(glyph, text, NoSize, "", NoSum)
SummaryLine(size, items, cats) == Line("", "", NoSize, "", [size |-> size, items |-> items, cats |-> cats])
BlankLine == Line("", "", NoSize, "", NoSum)

\* the lines an engine run is made of in the model
LinePool ==
    {HeaderLine("Browser Caches"), HeaderLine("Developer Tools"),
     DryLine("Chrome cache", Size(120, 2, "GB")),
     WouldLine("Trash", "empty"),
     PlainLine("/Users/me/.cache"),
     ProgressLine("Scanning"),
     OtherLine("CHECK", "Nothing to clean"),
     SummaryLine(Size(120, 2, "GB"), "1", "2"),
     BlankLine}

\* simpleMatch[1].startsWith("/")
startsWithSlash(text) == text \in {"/Users/me/.cache"}

\* which branch of the callback a line takes, in the order of the code
lineRule(line, hasCurrent) ==
    IF line.glyph = "" /\ line.text = "" /\ line.sum = NoSum THEN "blank"
    ELSE IF line.sum # NoSum THEN "summary"
    ELSE IF line.glyph = "HEADER" THEN "header"
    ELSE IF ~hasCurrent THEN "noCategory"
    ELSE IF line.glyph = "ARROW" /\ line.size # NoSize /\ line.text # "" THEN "dry"
    ELSE IF line.glyph = "ARROW" /\ line.would # "" /\ line.text # "" THEN "would"
    ELSE IF line.glyph = "ARROW" /\ line.text # "" /\ ~startsWithSlash(line.text) THEN "simple"
    ELSE IF line.glyph = "BULLET" THEN "progress"
    ELSE "ignored"

(***************************************************************************)
(* clean.tsx: runDryRun.  ui is the record of the state and the refs of    *)
(* the view.  Every record made from a line carries the scanId of the run  *)
(* the line came from.                                                     *)
(***************************************************************************)
Ui == [categories |-> categories, summary |-> summary, isLoading |-> isLoading, error |-> error,
       scanStatus |-> scanStatus, categoriesRef |-> categoriesRef,
       currentCategoryRef |-> currentCategoryRef, currentShared |-> currentShared]

\* a guard that lets every run through
isCurrentScan_always(current, scanId) == TRUE

\* currentScanIdRef.current === scanId
isCurrentScan(current, scanId) == current = scanId

\* a change made through currentCategoryRef.current reaches categoriesRef.current
\* too when the two hold the same object
withCurrent(ui, category) ==
    [ui EXCEPT !.currentCategoryRef = <<category>>,
               !.categoriesRef = IF ui.currentShared
                                 THEN [ui.categoriesRef EXCEPT ![Len(ui.categoriesRef)] = category]
                                 ELSE ui.categoriesRef]

\* finalizeCategorySize(current); categoriesRef.current = [...categoriesRef.current, current];
\* setCategories([...categoriesRef.current])
pushCurrent(ui) ==
    IF ui.currentCategoryRef = <<>> THEN ui
    ELSE LET u1 == withCurrent(ui, finalizeCategorySize(ui.currentCategoryRef[1]))
             ref == Append(u1.categoriesRef, u1.currentCategoryRef[1])
         IN  [u1 EXCEPT !.categoriesRef = ref, !.categories = ref, !.currentShared = TRUE]

\* items.push(item), finalizeCategorySize when asked,
\* setCategories([...categoriesRef.current, currentCategoryRef.current])
pushItem(ui, item, finalize) ==
    LET c0 == ui.currentCategoryRef[1]
        c1 == [c0 EXCEPT !.items = Append(c0.items, item)]
        u1 == withCurrent(ui, IF finalize THEN finalizeCategorySize(c1) ELSE c1)
    IN  [u1 EXCEPT !.categories = Append(u1.categoriesRef, u1.currentCategoryRef[1])]

\* a header rule that opens the new category without pushing the open one
onHeader_dropsOpen(ui, line, scanId) ==
    [ui EXCEPT !.currentCategoryRef =
                   <<[name |-> line.text, items |-> <<>>, totalSize |-> NoSize, scan |-> scanId]>>,
               !.currentShared = FALSE,
               !.scanStatus = "Scanning " \o line.text \o "..."]

\* the section header rule
onHeader(ui, line, scanId) ==
    LET u1 == pushCurrent(ui)
    IN  [u1 EXCEPT !.currentCategoryRef =
                       <<[name |-> line.text, items |-> <<>>, totalSize |-> NoSize, scan |-> scanId]>>,
                   !.currentShared = FALSE,
                   !.scanStatus = "Scanning " \o line.text \o "..."]

\* a summary rule that also commits the open category and closes it
onSummary_closesCurrent(ui, line, scanId) ==
    [pushCurrent(ui) EXCEPT !.summary = <<[totalSize |-> line.sum.size, totalItems |-> line.sum.items,
                                          totalCategories |-> line.sum.cats, scan |-> scanId]>>,
                            !.currentCategoryRef = <<>>]

\* the summary rule
onSummary(ui, line, scanId) ==
    [ui EXCEPT !.summary = <<[totalSize |-> line.sum.size, totalItems |-> line.sum.items,
                              totalCategories |-> line.sum.cats, scan |-> scanId]>>]

\* the callback given to spawnMoStreaming by the run scanId
onLine(ui, current, scanId, line) ==
    IF ~isCurrentScan(current, scanId) THEN ui
    ELSE LET rule == lineRule(line, ui.currentCategoryRef # <<>>)
         IN  CASE rule = "summary" -> onSummary(ui, line, scanId)
               [] rule = "header" -> onHeader(ui, line, scanId)
               [] rule = "dry" ->
                    pushItem(ui, [description |-> line.text, size |-> line.size, scan |-> scanId], TRUE)
               [] rule = "would" ->
                    pushItem(ui, [description |-> line.text \o " (would " \o line.would \o ")",
                                  size |-> NoSize, scan |-> scanId], FALSE)
               [] rule = "simple" ->
                    pushItem(ui, [description |-> line.text, size |-> NoSize, scan |-> scanId], FALSE)
               [] rule = "progress" -> [ui EXCEPT !.scanStatus = line.text]
               [] OTHER -> ui

\* the finally block
onFinally(ui, current, scanId) ==
    IF isCurrentScan(current, scanId) THEN [ui EXCEPT !.isLoading = FALSE, !.scanStatus = ""] ELSE ui

\* after the await: the final push, then the finally block
onResolved(ui, current, scanId) ==
    onFinally(IF isCurrentScan(current, scanId) THEN pushCurrent(ui) ELSE ui, current, scanId)

\* the catch block up to its await showToast
onRejected(ui, current, scanId, message) ==
    IF isCurrentScan(current, scanId) THEN [ui EXCEPT !.error = message] ELSE ui

SetUi(ui) ==
    /\ categories' = ui.categories
    /\ summary' = ui.summary
    /\ isLoading' = ui.isLoading
    /\ error' = ui.error
    /\ scanStatus' = ui.scanStatus
    /\ categoriesRef' = ui.categoriesRef
    /\ currentCategoryRef' = ui.currentCategoryRef
    /\ currentShared' = ui.currentShared

CleanInit ==
    /\ categories = <<>>
    /\ summary = <<>>
    /\ isLoading = TRUE
    /\ error = ""
    /\ scanStatus = ""
    /\ categoriesRef = <<>>
    /\ currentCategoryRef = <<>>
    /\ currentShared = FALSE
    /\ currentScanIdRef = 0
    /\ scans = <<>>

CleanIdle == CleanInit

CleanFrame == UNCHANGED <<execVars, streamVars, purgeVars, confirmVars, moPathVars, sizeVars, feedVars, zipVars, ansiVars, uninstallVars, sizesVars, parsersVars, listVars, detailsVars, statusVars>>

ScanIds == 1..Len(scans)

\* a line counts as a section header of the stream
isHeaderLine(line) == line.glyph = "HEADER" /\ line.sum = NoSum

RECURSIVE linesSeen(_)
\* the lines delivered so far, over all runs
linesSeen(k) == IF k = 0 THEN 0 ELSE scans[k].seen + linesSeen(k - 1)

\* the record of the run k after one more line went to its callback: the
\* names of the headers among its lines, and how many lines came when a
\* later run had been started
sawLine(k, line) ==
    [scans[k] EXCEPT !.seen = @ + 1,
                     !.headers = IF isHeaderLine(line) THEN Append(@, line.text) ELSE @,
                     !.staleLines = IF currentScanIdRef = k THEN @ ELSE @ + 1]

\* runDryRun is called: by the mount effect, the retry action or a refresh
RunDryRun ==
    /\ Len(scans) < MaxScans
    /\ currentScanIdRef' = currentScanIdRef + 1
    /\ SetUi([categories |-> <<>>, summary |-> <<>>, isLoading |-> TRUE, error |-> "",
              scanStatus |-> "Scanning...", categoriesRef |-> <<>>, currentCategoryRef |-> <<>>,
              currentShared |-> FALSE])
    /\ scans' = Append(scans, [proc |-> "resolving", pc |-> "streaming", seen |-> 0,
                               headers |-> <<>>, staleLines |-> 0])
    /\ CleanFrame

\* getMoPath throws inside spawnMoStreaming: the promise is rejected
ScanNotFound(k) ==
    /\ scans[k].proc = "resolving"
    /\ scans' = [scans EXCEPT ![k].proc = "notFound",
                              ![k].pc = IF isCurrentScan(currentScanIdRef, k) THEN "toast" ELSE "done"]
    /\ SetUi(LET u == onRejected(Ui, currentScanIdRef, k, "Mole (mo) not installed")
             IN  IF isCurrentScan(currentScanIdRef, k) THEN u ELSE onFinally(u, currentScanIdRef, k))
    /\ UNCHANGED currentScanIdRef
    /\ CleanFrame

\* the engine process is spawned
ScanSpawn(k) ==
    /\ scans[k].proc = "resolving"
    /\ scans' = [scans EXCEPT ![k].proc = "running"]
    /\ UNCHANGED <<cleanUi, currentScanIdRef>>
    /\ CleanFrame

\* the 'error' event of the process: the promise is rejected
ScanError(k) ==
    /\ scans[k].proc = "running"
    /\ scans[k].seen = 0
    /\ scans' = [scans EXCEPT ![k].proc = "failed",
                              ![k].pc = IF isCurrentScan(currentScanIdRef, k) THEN "toast" ELSE "done"]
    /\ SetUi(LET u == onRejected(Ui, currentScanIdRef, k, "mo clean --dry-run failed: spawn error")
             IN  IF isCurrentScan(currentScanIdRef, k) THEN u ELSE onFinally(u, currentScanIdRef, k))
    /\ UNCHANGED currentScanIdRef
    /\ CleanFrame

\* await showToast in the catch block returns: the finally block
ScanToastDone(k) ==
    /\ scans[k].pc = "toast"
    /\ scans' = [scans EXCEPT ![k].pc = "done"]
    /\ SetUi(onFinally(Ui, currentScanIdRef, k))
    /\ UNCHANGED currentScanIdRef
    /\ CleanFrame

\* a complete line of the run k reaches its callback; output that was in
\* the pipe when the process was killed still arrives
ScanLine(k, line) ==
    /\ scans[k].proc \in {"running", "killed"}
    /\ linesSeen(Len(scans)) < MaxLines
    /\ scans' = [scans EXCEPT ![k] = sawLine(k, line)]
    /\ SetUi(onLine(Ui, currentScanIdRef, k, line))
    /\ UNCHANGED currentScanIdRef
    /\ CleanFrame

\* the 'close' event of the run k: rest is what the buffer holds, <<>> when
\* it is blank; the promise is resolved if it is still pending
ScanClose(k, rest) ==
    /\ scans[k].proc \in {"running", "killed"}
    /\ rest # <<>> => linesSeen(Len(scans)) < MaxLines
    /\ LET flushed == IF rest = <<>> THEN Ui ELSE onLine(Ui, currentScanIdRef, k, rest[1])
           seen == IF rest = <<>> THEN scans[k] ELSE sawLine(k, rest[1])
       IN  /\ scans' = [scans EXCEPT ![k] = [seen EXCEPT !.proc = "closed", !.pc = "done"]]
           /\ SetUi(IF scans[k].pc = "streaming"
                    THEN onResolved(flushed, currentScanIdRef, k)
                    ELSE flushed)
    /\ UNCHANGED currentScanIdRef
    /\ CleanFrame

\* the 5 minute timer of the run k fires while its process runs: the
\* process is killed and the promise is resolved
ScanTimeout(k) ==
    /\ scans[k].proc = "running"
    /\ scans' = [scans EXCEPT ![k].proc = "killed", ![k].pc = "done"]
    /\ SetUi(onResolved(Ui, currentScanIdRef, k))
    /\ UNCHANGED currentScanIdRef
    /\ CleanFrame

NextClean ==
    \/ RunDryRun
    \/ \E k \in ScanIds : ScanNotFound(k)
    \/ \E k \in ScanIds : ScanSpawn(k)
    \/ \E k \in ScanIds : ScanError(k)
    \/ \E k \in ScanIds : ScanToastDone(k)
    \/ \E k \in ScanIds, line \in LinePool : ScanLine(k, line)
    \/ \E k \in ScanIds, rest \in {<<>>} \cup {<<l>> : l \in LinePool \ {BlankLine}} : ScanClose(k, rest)
    \/ \E k \in ScanIds : ScanTimeout(k)

----------------------------------------------------------------------------
(***************************************************************************)
(* utils.ts: confirmAndExecute, and the destructive actions of the views   *)
(* that go through it.  A call is the record of the action that made it,   *)
(* the paths its onConfirm closure captured, the answer of the dialog, the *)
(* position of the call, how many times onConfirm was entered and the      *)
(* toasts: outer is the toast confirmAndExecute owns, inner the last one   *)
(* onConfirm showed.                                                       *)
(***************************************************************************)
PurgePaths == {"/Users/me/Projects/a/node_modules", "/Users/me/Projects/b/target"}
CategoryPaths == {"/Users/me/Library/Caches/x"}
AppPaths == {"/Applications/A.app"}

EngineActions == {"executeClean", "runOptimization", "uninstallApp"}
TrashActions == {"cleanCategory", "purgeItem", "purgeAll"}

NewCall(action, paths) ==
    [action |-> action, paths |-> paths, confirmed |-> "pending", pc |-> "alert", entered |-> 0,
     outer |-> "", inner |-> ""]

\* a gate that goes on whatever the dialog answered
proceeds_always(confirmed) == TRUE

\* if (!confirmed) return;
proceeds(confirmed) == confirmed

\* the arguments of execMo in the onConfirm of an action
engineArgs(call) ==
    CASE call.action = "executeClean" -> <<"clean">>
      [] call.action = "runOptimization" -> <<"optimize">>
      [] call.action = "uninstallApp" -> <<"uninstall", "--batch">>

ExecOp(i) == [call |-> i, op |-> "execMo", args |-> engineArgs(calls[i]), paths |-> calls[i].paths]
TrashOp(i) == [call |-> i, op |-> "trash", args |-> <<>>, paths |-> calls[i].paths]

ConfirmInit ==
    /\ calls = <<>>
    /\ started = <<>>
    /\ purgeItems \in SUBSET PurgePaths
    /\ trashed = {}
    /\ refreshes = 0

ConfirmIdle ==
    /\ calls = <<>>
    /\ started = <<>>
    /\ purgeItems = {}
    /\ trashed = {}
    /\ refreshes = 0

ConfirmFrame == UNCHANGED <<execVars, streamVars, purgeVars, cleanVars, moPathVars, sizeVars, feedVars, zipVars, ansiVars, uninstallVars, sizesVars, parsersVars, listVars, detailsVars, statusVars>>

CallIds == 1..Len(calls)

\* confirmAndExecute is called and shows the dialog
confirmAndExecute(action, paths) ==
    /\ Len(calls) < MaxCalls
    /\ calls' = Append(calls, NewCall(action, paths))
    /\ UNCHANGED <<started, purgeItems, trashed, refreshes>>
    /\ ConfirmFrame

executeClean == confirmAndExecute("executeClean", {})

runOptimization == confirmAndExecute("runOptimization", {})

uninstallApp(app) == confirmAndExecute("uninstallApp", {app})

\* getPathsForCategory runs before the dialog; paths is what toTrash is
\* made of from its result
cleanCategory(paths) == confirmAndExecute("cleanCategory", paths)

purgeItem(item) == item \in purgeItems /\ confirmAndExecute("purgeItem", {item})

\* the closure holds the purgeItems of the render the action was taken in
purgeAll == confirmAndExecute("purgeAll", purgeItems)

\* confirmAlert returns: the gate, and the "working" toast
AlertAnswered(i, confirmed) ==
    /\ calls[i].pc = "alert"
    /\ calls' = [calls EXCEPT ![i].confirmed = IF confirmed THEN "yes" ELSE "no",
                              ![i].pc = IF proceeds(confirmed) THEN "onConfirm" ELSE "returned",
                              ![i].outer = IF proceeds(confirmed) THEN "Animated" ELSE @]
    /\ UNCHANGED <<started, purgeItems, trashed, refreshes>>
    /\ ConfirmFrame

\* await options.onConfirm(): the body up to its first destructive operation
OnConfirm(i) ==
    /\ calls[i].pc = "onConfirm"
    /\ LET c == [calls[i] EXCEPT !.entered = @ + 1]
       IN  IF c.action \in EngineActions
           THEN /\ started' = Append(started, ExecOp(i))
                /\ calls' = [calls EXCEPT ![i] = [c EXCEPT !.pc = "execMo",
                                                 !.inner = IF c.action = "executeClean" THEN @ ELSE "Animated"]]
                /\ UNCHANGED refreshes
           ELSE IF c.paths # {}
           THEN /\ started' = Append(started, TrashOp(i))
                /\ calls' = [calls EXCEPT ![i] = [c EXCEPT !.pc = "trash",
                                                 !.inner = IF c.action = "cleanCategory" THEN @ ELSE "Animated"]]
                /\ UNCHANGED refreshes
           ELSE \* nothing to move: cleanCategory still reports and refreshes
                /\ started' = started
                /\ calls' = [calls EXCEPT ![i] = [c EXCEPT !.pc = "returned", !.outer = "Success",
                                                 !.inner = IF c.action = "cleanCategory" THEN "Success"
                                                           ELSE "Animated"]]
                /\ refreshes' = refreshes + (IF c.action = "cleanCategory" THEN 1 ELSE 0)
    /\ UNCHANGED <<purgeItems, trashed>>
    /\ ConfirmFrame

\* execMo settles
EngineDone(i, ok) ==
    /\ calls[i].pc = "execMo"
    /\ LET c == calls[i]
       IN  CASE ok ->
                  /\ calls' = [calls EXCEPT ![i].pc = "returned", ![i].inner = "Success",
                                            ![i].outer = "Success"]
                  /\ refreshes' = refreshes + 1
                  /\ started' = started
             [] ~ok /\ c.action = "executeClean" ->
                  /\ calls' = [calls EXCEPT ![i].pc = "returned", ![i].outer = "Failure"]
                  /\ UNCHANGED <<refreshes, started>>
             [] ~ok /\ c.action = "runOptimization" ->
                  /\ calls' = [calls EXCEPT ![i].pc = "returned", ![i].inner = "Failure",
                                            ![i].outer = "Success"]
                  /\ UNCHANGED <<refreshes, started>>
             [] ~ok /\ c.action = "uninstallApp" ->
                  \* the fallback: trash(app.path)
                  /\ calls' = [calls EXCEPT ![i].pc = "trash"]
                  /\ started' = Append(started, TrashOp(i))
                  /\ UNCHANGED refreshes
    /\ UNCHANGED <<purgeItems, trashed>>
    /\ ConfirmFrame

\* a handler that updates the list whether trashPaths threw or not
itemsAfterTrash_whateverHappened(action, ok, prev, paths) ==
    IF action = "purgeItem" THEN prev \ paths ELSE {}

\* the list after await trashPaths(...): setItems(prev => prev.filter(p => p.path !== item.path))
\* in purgeItem, setItems([]) in purgeAll, and neither when trashPaths threw
itemsAfterTrash(action, ok, prev, paths) ==
    IF ~ok THEN prev
    ELSE IF action = "purgeItem" THEN prev \ paths ELSE {}

\* trash settles: it moved every path, or it threw having moved some of them
TrashDone(i, moved) ==
    /\ calls[i].pc = "trash"
    /\ moved \subseteq calls[i].paths
    /\ trashed' = trashed \cup moved
    /\ LET c == calls[i]
           ok == moved = c.paths
       IN  CASE c.action = "purgeItem" ->
                  /\ purgeItems' = itemsAfterTrash(c.action, ok, purgeItems, c.paths)
                  /\ calls' = [calls EXCEPT ![i].pc = "returned", ![i].outer = "Success",
                                            ![i].inner = IF ok THEN "Success" ELSE "Failure"]
                  /\ UNCHANGED refreshes
             [] c.action = "purgeAll" ->
                  /\ purgeItems' = itemsAfterTrash(c.action, ok, purgeItems, c.paths)
                  /\ calls' = [calls EXCEPT ![i].pc = "returned", ![i].outer = "Success",
                                            ![i].inner = IF ok THEN "Success" ELSE "Failure"]
                  /\ UNCHANGED refreshes
             [] c.action = "cleanCategory" ->
                  /\ calls' = [calls EXCEPT ![i].pc = "returned",
                                            ![i].outer = IF ok THEN "Success" ELSE "Failure",
                                            ![i].inner = IF ok THEN "Success" ELSE @]
                  /\ refreshes' = refreshes + (IF ok THEN 1 ELSE 0)
                  /\ UNCHANGED purgeItems
             [] c.action = "uninstallApp" ->
                  /\ calls' = [calls EXCEPT ![i].pc = "returned",
                                            ![i].outer = IF ok THEN "Success" ELSE "Failure",
                                            ![i].inner = IF ok THEN "Success" ELSE @]
                  /\ refreshes' = refreshes + (IF ok THEN 1 ELSE 0)
                  /\ UNCHANGED purgeItems
    /\ UNCHANGED started
    /\ ConfirmFrame

NextConfirm ==
    \/ executeClean
    \/ runOptimization
    \/ \E app \in AppPaths : uninstallApp(app)
    \/ \E paths \in SUBSET CategoryPaths : cleanCategory(paths)
    \/ \E item \in PurgePaths : purgeItem(item)
    \/ purgeAll
    \/ \E i \in CallIds, confirmed \in BOOLEAN : AlertAnswered(i, confirmed)
    \/ \E i \in CallIds : OnConfirm(i)
    \/ \E i \in CallIds, ok \in BOOLEAN : EngineDone(i, ok)
    \/ \E i \in CallIds, moved \in SUBSET (PurgePaths \cup CategoryPaths \cup AppPaths) : TrashDone(i, moved)

----------------------------------------------------------------------------
(***************************************************************************)
(* utils.ts: getMoPath as it runs in the process.  The function reads the  *)
(* cache, awaits `which`, and only then probes the disk and writes the     *)
(* cache, so calls made by different handlers can overlap.  A call is the  *)
(* record of its position, of its result (as getMoPath gives it) and of    *)
(* prior: the paths earlier calls had returned when this one was made.     *)
(***************************************************************************)
MoCallIds == 1..Len(moCalls)

\* the paths the calls that have succeeded so far returned
succeededPaths == {moCalls[i].result.path : i \in {j \in MoCallIds : moCalls[j].pc = "done" /\ moCalls[j].result.ok}}

MoPathIdle == moCalls = <<>>

MoPathInit ==
    /\ moCalls = <<>>
    /\ fsMo \in SUBSET MoPaths
    /\ cachedMoPath = ""
    /\ execPc = "idle"
    /\ execArgs = <<>>
    /\ moLookup = NoLookup
    /\ execOutcome = NoOutcome
    /\ execResult = NoResult
    /\ execCalls = 0
    /\ fsChanges = 0

MoPathFrame ==
    UNCHANGED <<execPc, execArgs, moLookup, execOutcome, execResult, execCalls, streamVars, purgeVars,
                cleanVars, confirmVars, sizeVars, feedVars, zipVars, ansiVars, uninstallVars, sizesVars, parsersVars, listVars, detailsVars, statusVars>>

\* getMoPath() is called: it returns the cached path, or starts `which mo`
GetMoPathCall ==
    /\ Len(moCalls) < MaxMoCalls
    /\ moCalls' = Append(moCalls,
                         IF cachedMoPath # ""
                         THEN [pc |-> "done", prior |-> succeededPaths,
                               result |-> getMoPath(cachedMoPath, NoLookup.which, fsMo)]
                         ELSE [pc |-> "which", prior |-> succeededPaths, result |-> NoLookup])
    /\ UNCHANGED <<fsMo, cachedMoPath, fsChanges>>
    /\ MoPathFrame

\* `which mo` of the call i settles with w: the rest of the function runs
GetMoPathResume(i, w) ==
    /\ moCalls[i].pc = "which"
    /\ LET r == getMoPath("", w, fsMo)
       IN  /\ moCalls' = [moCalls EXCEPT ![i].pc = "done", ![i].result = r]
           /\ cachedMoPath' = IF r.ok THEN r.path ELSE cachedMoPath
    /\ UNCHANGED <<fsMo, fsChanges>>
    /\ MoPathFrame

\* the engine is installed, moved or removed while the process runs
MoPathFsChange(p) ==
    /\ fsChanges < MaxFsChanges
    /\ Len(moCalls) < MaxMoCalls
    /\ fsChanges' = fsChanges + 1
    /\ fsMo' = IF p \in fsMo THEN fsMo \ {p} ELSE fsMo \cup {p}
    /\ UNCHANGED <<cachedMoPath, moCalls>>
    /\ MoPathFrame

NextMoPath ==
    \/ GetMoPathCall
    \/ \E i \in MoCallIds, w \in WhichOutcomes : GetMoPathResume(i, w)
    \/ \E p \in MoPaths : MoPathFsChange(p)

----------------------------------------------------------------------------
(***************************************************************************)
(* clean.tsx: parseSizeToBytes and formatBytesShort applied to one size    *)
(* string.                                                                 *)
(***************************************************************************)
RoundTripUnits == {"B", "KB", "MB", "GB", "TB"}

\* the digits of the size strings tried: below, at and above 1024
SizeDigits == {1, 5, 12, 120, 512, 999, 1023, 1024, 1500}

SizeStrings == {Size(n, dec, unit) : n \in SizeDigits, dec \in 0..2, unit \in RoundTripUnits \cup {"gb"}}

SizeInit ==
    /\ sizeInput \in SizeStrings
    /\ sizePc = "input"
    /\ sizeBytes = ZeroBytes
    /\ sizeText = NoSize

SizeIdle ==
    /\ sizeInput = NoSize
    /\ sizePc = "input"
    /\ sizeBytes = ZeroBytes
    /\ sizeText = NoSize

SizeFrame == UNCHANGED <<execVars, streamVars, purgeVars, cleanVars, confirmVars, moPathVars, feedVars, zipVars, ansiVars, uninstallVars, sizesVars, parsersVars, listVars, detailsVars, statusVars>>

\* formatBytesShort(parseSizeToBytes(sizeInput))
SizeRoundTrip ==
    /\ sizePc = "input"
    /\ sizePc' = "done"
    /\ sizeBytes' = parseSizeToBytes(sizeInput)
    /\ sizeText' = formatBytesShort(parseSizeToBytes(sizeInput))
    /\ UNCHANGED sizeInput
    /\ SizeFrame

NextSize == SizeRoundTrip

----------------------------------------------------------------------------
(***************************************************************************)
(* clean.tsx: the parser of runDryRun over one whole stream.  One scan is  *)
(* run; the engine prints the lines of feedAll and exits; the last line    *)
(* may lack its newline, and is then flushed by the close handler.         *)
(***************************************************************************)
FeedPool == LinePool \cup {DryLine("Safari cache", Size(512, 0, "MB")), DryLine("Empty cache", Size(0, 0, "B"))}

\* the stream of the first end-to-end scenario
Scenario1 ==
    <<HeaderLine("Browser Caches"),
      DryLine("Chrome cache", Size(120, 2, "GB")),
      HeaderLine("Developer Tools"),
      OtherLine("CHECK", "Nothing to clean"),
      SummaryLine(Size(120, 2, "GB"), "1", "2")>>

Feeds == SeqsUpTo(FeedPool, MaxFeed) \cup {Scenario1}

FeedInit ==
    /\ feedAll \in Feeds
    /\ feed = feedAll

FeedIdle ==
    /\ feedAll = <<>>
    /\ feed = <<>>

FeedFrame == UNCHANGED <<execVars, streamVars, purgeVars, confirmVars, moPathVars, sizeVars, zipVars, ansiVars, uninstallVars, sizesVars, parsersVars, listVars, detailsVars, statusVars>>

\* the view is mounted: runDryRun
FeedStart == Len(scans) = 0 /\ RunDryRun

FeedSpawn == Len(scans) = 1 /\ ScanSpawn(1)

\* the data handler delivers the next complete line
FeedLine ==
    /\ Len(scans) = 1
    /\ scans[1].proc = "running"
    /\ feed # <<>>
    /\ feed' = Tail(feed)
    /\ scans' = [scans EXCEPT ![1] = sawLine(1, Head(feed))]
    /\ SetUi(onLine(Ui, currentScanIdRef, 1, Head(feed)))
    /\ UNCHANGED <<feedAll, currentScanIdRef>>
    /\ FeedFrame

\* the close handler: with flush the last line had no newline and is
\* delivered now if it is not blank; the promise resolves and runDryRun
\* goes on to its final commit and its finally block
FeedClose(flush) ==
    /\ Len(scans) = 1
    /\ scans[1].proc = "running"
    /\ IF flush THEN Len(feed) = 1 ELSE feed = <<>>
    /\ LET deliver == flush /\ Head(feed) # BlankLine
           flushed == IF deliver THEN onLine(Ui, currentScanIdRef, 1, Head(feed)) ELSE Ui
           seen == IF deliver THEN sawLine(1, Head(feed)) ELSE scans[1]
       IN  /\ scans' = [scans EXCEPT ![1] = [seen EXCEPT !.proc = "closed", !.pc = "done"]]
           /\ SetUi(onResolved(flushed, currentScanIdRef, 1))
    /\ feed' = <<>>
    /\ UNCHANGED <<feedAll, currentScanIdRef>>
    /\ FeedFrame

NextFeed ==
    \/ FeedStart
    \/ FeedSpawn
    \/ FeedLine
    \/ \E flush \in BOOLEAN : FeedClose(flush)

----------------------------------------------------------------------------
(***************************************************************************)
(* installer.tsx: isInstallerZip.  An entry path is a sequence of pieces:  *)
(* names, "/" and extensions.  The archive lists some number of            *)
(* readme.txt entries and then a few entries of any shape.                 *)
(***************************************************************************)
\* head -n 50
HeadLimit == 50

PayloadExtensions == {".app", ".pkg", ".dmg", ".xip"}

\* the i flag of the pattern
lowerCase(piece) == IF piece = ".PKG" THEN ".pkg" ELSE piece

Readme == <<"readme", ".txt">>

EntryShapes ==
    {Readme,
     <<"payload", ".pkg">>,
     <<"PAYLOAD", ".PKG">>,
     <<"Some", ".app", "/", "Contents">>,
     <<"dir", "/", "image", ".dmg">>,
     <<"tool", ".xip">>,
     <<"notes", ".pkg", "s">>,
     <<"backup", ".pkg", ".txt">>}

RECURSIVE repeat(_, _)
repeat(entry, n) == IF n = 0 THEN <<>> ELSE <<entry>> \o repeat(entry, n - 1)

Archives ==
    {repeat(Readme, k) \o tail : k \in 0..(HeadLimit + 1), tail \in SeqsUpTo(EntryShapes, MaxTail)}

\* `zipinfo -1 zip | head -n 50`: the first lines of the listing
head(lines) == SubSeq(lines, 1, IF Len(lines) < HeadLimit THEN Len(lines) ELSE HeadLimit)

\* stdout.split("\n"): every line ends with a newline, so an empty string
\* follows the last one
splitLines(lines) == lines \o << <<>> >>

\* /\.(app|pkg|dmg|xip)(\/|$)/i.test(line)
payloadPattern(line) ==
    \E i \in 1..Len(line) :
        /\ lowerCase(line[i]) \in PayloadExtensions
        /\ i = Len(line) \/ line[i + 1] = "/"

\* the loop over the lines
anyLineMatches(lines) == \E n \in 1..Len(lines) : payloadPattern(lines[n])

\* How the command can end: it lists the archive; zipinfo fails and prints
\* nothing on stdout (the pipeline still exits with the status of head);
\* or exec rejects (timeout of 2 s, spawn failure)
ZipOutcomes == {"listed", "zipinfoFailed", "execRejected"}

\* a loop that reads the whole listing
isInstallerZip_noHead(entries, outcome) ==
    IF outcome = "execRejected" THEN FALSE
    ELSE anyLineMatches(splitLines(IF outcome = "listed" THEN entries ELSE <<>>))

isInstallerZip(entries, outcome) ==
    IF outcome = "execRejected" THEN FALSE
    ELSE anyLineMatches(splitLines(IF outcome = "listed" THEN head(entries) ELSE <<>>))

ZipInit ==
    /\ zipEntries \in Archives
    /\ zipPc = "input"
    /\ zipListing = "none"
    /\ zipResult = FALSE

ZipIdle ==
    /\ zipEntries = <<>>
    /\ zipPc = "input"
    /\ zipListing = "none"
    /\ zipResult = FALSE

ZipFrame ==
    UNCHANGED <<execVars, streamVars, purgeVars, cleanVars, confirmVars, moPathVars, sizeVars, feedVars, ansiVars, uninstallVars, sizesVars, parsersVars, listVars, detailsVars, statusVars>>

\* isInstallerZip(zipPath) runs and the command ends with outcome
IsInstallerZip(outcome) ==
    /\ zipPc = "input"
    /\ zipPc' = "done"
    /\ zipListing' = outcome
    /\ zipResult' = isInstallerZip(zipEntries, outcome)
    /\ UNCHANGED zipEntries
    /\ ZipFrame

NextZip == \E outcome \in ZipOutcomes : IsInstallerZip(outcome)

----------------------------------------------------------------------------
(***************************************************************************)
(* utils.ts: stripAnsi.  text.replace(ANSI_REGEX, "") scans the text once  *)
(* from left to right; at each position it tries the CSI alternative       *)
(* \x1b\[[0-9;]*[a-zA-Z], then the OSC alternative \x1b\].*?\x07, removes  *)
(* a match and goes on after it.                                           *)
(***************************************************************************)
AnsiChars == {"ESC", "[", "]", "0", "m", "BEL"}

isParam(c) == c \in {"0", "1", "2", "3", "4", "5", "6", "7", "8", "9", ";"}

isLetter(c) == c \in {"m", "a", "K", "H"}

\* the end of [0-9;]* from position j
RECURSIVE paramsEnd(_, _)
paramsEnd(text, j) ==
    IF j <= Len(text) /\ isParam(text[j]) THEN paramsEnd(text, j + 1) ELSE j

\* the position where a match of the CSI alternative at i ends, 0 for none
matchCsi(text, i) ==
    IF i + 1 <= Len(text) /\ text[i] = "ESC" /\ text[i + 1] = "["
    THEN LET j == paramsEnd(text, i + 2)
         IN  IF j <= Len(text) /\ isLetter(text[j]) THEN j ELSE 0
    ELSE 0

\* the first BEL from position j with no line break before it, 0 for none:
\* .*? takes as little as it can and . takes no line break
RECURSIVE firstBel(_, _)
firstBel(text, j) ==
    IF j > Len(text) THEN 0
    ELSE IF text[j] = "BEL" THEN j
    ELSE IF text[j] = "\n" THEN 0
    ELSE firstBel(text, j + 1)

\* the position where a match of the OSC alternative at i ends, 0 for none
matchOsc(text, i) ==
    IF i + 1 <= Len(text) /\ text[i] = "ESC" /\ text[i + 1] = "]"
    THEN firstBel(text, i + 2)
    ELSE 0

matchAnsi(text, i) == IF matchCsi(text, i) # 0 THEN matchCsi(text, i) ELSE matchOsc(text, i)

RECURSIVE replaceFrom(_, _)
replaceFrom(text, i) ==
    IF i > Len(text) THEN <<>>
    ELSE IF matchAnsi(text, i) # 0 THEN replaceFrom(text, matchAnsi(text, i) + 1)
    ELSE <<text[i]>> \o replaceFrom(text, i + 1)

stripAnsi(text) == replaceFrom(text, 1)

AnsiInit ==
    /\ ansiText \in SeqsUpTo(AnsiChars, MaxAnsiLen)
    /\ ansiPc = "input"
    /\ ansiOut = <<>>

AnsiIdle ==
    /\ ansiText = <<>>
    /\ ansiPc = "input"
    /\ ansiOut = <<>>

AnsiFrame ==
    UNCHANGED <<execVars, streamVars, purgeVars, cleanVars, confirmVars, moPathVars, sizeVars, feedVars,
                zipVars, uninstallVars, sizesVars, parsersVars, listVars, detailsVars, statusVars>>

\* stripAnsi(ansiText)
StripAnsi ==
    /\ ansiPc = "input"
    /\ ansiPc' = "done"
    /\ ansiOut' = stripAnsi(ansiText)
    /\ UNCHANGED ansiText
    /\ AnsiFrame

NextAnsi == StripAnsi

----------------------------------------------------------------------------
(***************************************************************************)
(* uninstall.tsx: fetchApps and its background workers.  A value written   *)
(* into leftoversMap or displayMap carries the number of the fetchApps     *)
(* call whose code wrote it.                                               *)
(***************************************************************************)
CONCURRENCY_LIMIT == 5

UnAppPaths == <<"/Applications/A.app", "/Applications/B.app">>

\* what the fast scan can list: some of the applications, in order, each
\* with or without its leftovers already in the output
FoundLists ==
    {found \in SeqsUpTo({[path |-> UnAppPaths[n], detailed |-> d] : n \in 1..Len(UnAppPaths), d \in BOOLEAN},
                        Len(UnAppPaths)) :
        \A m, n \in 1..Len(found) : m < n => found[m].path # found[n].path}

\* what scanLeftoversForApp returns: it catches every error and then gives
\* no files and no display
ScanResults ==
    {[files |-> <<>>, display |-> ""],
     [files |-> <<"~/Library/Caches/app">>, display |-> "12KB"]}

Workers == 1..CONCURRENCY_LIMIT

IdleWorker == [state |-> "finished", app |-> ""]

\* Array.prototype.filter
RECURSIVE filterNotDetailed(_)
filterNotDetailed(found) ==
    IF found = <<>> THEN <<>>
    ELSE (IF Head(found).detailed THEN <<>> ELSE <<Head(found).path>>) \o filterNotDetailed(Tail(found))

\* prev => ({ ...prev, [key]: value })
withEntry(map, key, value) == [k \in DOMAIN map \cup {key} |-> IF k = key THEN value ELSE map[k]]

\* the maps built from the fast scan by the fetch f
initialMap(found, f, field) ==
    LET detailed == {n \in 1..Len(found) : found[n].detailed}
    IN  [p \in {found[n].path : n \in detailed} |-> [value |-> field, fetch |-> f]]

\* the workers right after Array.from(...).map(async ...): each one runs up
\* to its first await, taking the next index of toScan if there is one
startWorkers(toScan) ==
    [w \in Workers |-> IF w <= Len(toScan) THEN [state |-> "scanning", app |-> toScan[w]] ELSE IdleWorker]

\* a finally block that runs only when the scan found something
afterScan_whenFound(current, path, result) == IF result.files = <<>> THEN current ELSE current \ {path}

\* the finally block of the worker loop, whatever the scan returned:
\* setScanningApps(current => { next.delete(path) })
afterScan(current, path, result) == current \ {path}

UninstallInit ==
    /\ apps = <<>>
    /\ unIsLoading = TRUE
    /\ scanningApps = {}
    /\ leftoversMap = <<>>
    /\ displayMap = <<>>
    /\ fetches = <<>>

UninstallIdle == UninstallInit

UninstallFrame ==
    UNCHANGED <<execVars, streamVars, purgeVars, cleanVars, confirmVars, moPathVars, sizeVars, feedVars,
                zipVars, ansiVars, sizesVars, parsersVars, listVars, detailsVars, statusVars>>

FetchIds == 1..Len(fetches)

\* fetchApps is called: by the mount effect, or by uninstallApp after an
\* application of the list went to the trash
FetchApps ==
    /\ Len(fetches) < MaxFetches
    /\ Len(fetches) = 0 \/ apps # <<>>
    /\ fetches' = Append(fetches, [pc |-> "execMo", toScan |-> <<>>, i |-> 0,
                                   workers |-> [w \in Workers |-> IdleWorker], scanned |-> <<>>])
    /\ unIsLoading' = TRUE
    /\ UNCHANGED <<apps, scanningApps, leftoversMap, displayMap>>
    /\ UninstallFrame

\* the fast scan of the fetch f returns found: the maps are installed and
\* the workers started
FetchListed(f, found) ==
    /\ fetches[f].pc = "execMo"
    /\ LET toScan == filterNotDetailed(found)
       IN  /\ apps' = [n \in 1..Len(found) |-> found[n].path]
           /\ leftoversMap' = initialMap(found, f, <<"~/Library/Caches/app">>)
           /\ displayMap' = initialMap(found, f, "12KB")
           /\ scanningApps' = {toScan[n] : n \in 1..Len(toScan)}
           /\ fetches' = [fetches EXCEPT ![f] =
                             [pc |-> "scanning", toScan |-> toScan,
                              i |-> IF Len(toScan) < CONCURRENCY_LIMIT THEN Len(toScan) ELSE CONCURRENCY_LIMIT,
                              workers |-> startWorkers(toScan), scanned |-> <<>>]]
    /\ unIsLoading' = FALSE
    /\ UninstallFrame

\* the fast scan of the fetch f fails: the catch block and the finally block
FetchFailed(f) ==
    /\ fetches[f].pc = "execMo"
    /\ fetches' = [fetches EXCEPT ![f].pc = "failed"]
    /\ unIsLoading' = FALSE
    /\ UNCHANGED <<apps, scanningApps, leftoversMap, displayMap>>
    /\ UninstallFrame

\* scanLeftoversForApp of the worker w of the fetch f settles with result:
\* the rest of the loop body, and the next turn of the loop up to its await
WorkerScanned(f, w, result) ==
    /\ fetches[f].workers[w].state = "scanning"
    /\ LET app == fetches[f].workers[w].app
           more == fetches[f].i < Len(fetches[f].toScan)
       IN  /\ leftoversMap' = withEntry(leftoversMap, app, [value |-> result.files, fetch |-> f])
           /\ displayMap' = IF result.display # ""
                            THEN withEntry(displayMap, app, [value |-> result.display, fetch |-> f])
                            ELSE displayMap
           /\ scanningApps' = afterScan(scanningApps, app, result)
           /\ fetches' = [fetches EXCEPT
                             ![f].i = IF more THEN @ + 1 ELSE @,
                             ![f].scanned = Append(@, app),
                             ![f].workers[w] = IF more
                                               THEN [state |-> "scanning", app |-> fetches[f].toScan[fetches[f].i + 1]]
                                               ELSE IdleWorker]
    /\ UNCHANGED <<apps, unIsLoading>>
    /\ UninstallFrame

NextUninstall ==
    \/ FetchApps
    \/ \E f \in FetchIds, found \in FoundLists : FetchListed(f, found)
    \/ \E f \in FetchIds : FetchFailed(f)
    \/ \E f \in FetchIds, w \in Workers, result \in ScanResults : WorkerScanned(f, w, result)

----------------------------------------------------------------------------
(***************************************************************************)
(* purge.tsx: scan() and calculateSizes.  discoverPurgeTargets can return  *)
(* the same path twice (the walks from ~/Projects and from ~ both reach    *)
(* it); here the second item may repeat the path of the first.             *)
(***************************************************************************)
batchSize == 10

pathOf(n) == "~/Projects/app" \o ToString(n) \o "/node_modules"

\* what discoverPurgeTargets resolves with
foundItems(n, twice) ==
    [k \in 1..n |-> [path |-> pathOf(IF twice /\ k = 2 THEN 1 ELSE k), sizeBytes |-> <<>>, isLoadingSize |-> TRUE]]

\* the first column of the output of du -sk for a path
duKb(found, path) == 4 * (CHOOSE k \in 1..Len(found) : found[k].path = path)

\* how a du child process can settle: with a size, with output parseInt
\* makes nothing of, or with an error
DuOutcomes == {"sized", "garbled", "failed"}

\* a slice that takes the rest of the list
slice_toEnd(found, i) == {k \in 1..Len(found) : i < k}

\* initialItems.slice(i, i + batchSize), as positions of the list
slice(found, i) == {k \in 1..Len(found) : i < k /\ k <= i + batchSize}

\* prev.map(p => p.path === item.path ? {...p, ...} : p) after a size
setSized(prev, path, sizeKb) ==
    [k \in 1..Len(prev) |-> IF prev[k].path = path
                            THEN [prev[k] EXCEPT !.sizeBytes = <<sizeKb * BYTES_PER_KB>>, !.isLoadingSize = FALSE]
                            ELSE prev[k]]

\* prev.map(p => p.path === item.path ? {...p, isLoadingSize: false} : p)
setFailed(prev, path) ==
    [k \in 1..Len(prev) |-> IF prev[k].path = path THEN [prev[k] EXCEPT !.isLoadingSize = FALSE] ELSE prev[k]]

\* the du processes after the batch from i was mapped: each one started
startBatch(procs, found, i) == [k \in 1..Len(found) |-> IF k \in slice(found, i) THEN "running" ELSE procs[k]]

notSized(procs) == {k \in DOMAIN procs : procs[k] \in {"garbled", "failed"}}

SizesInit ==
    /\ viewItems = <<>>
    /\ viewIsLoading = TRUE
    /\ scanToast = ""
    /\ initialItems = <<>>
    /\ batchI = 0
    /\ duProcs = <<>>
    /\ sizesPc = "discovering"

SizesIdle == SizesInit

SizesFrame ==
    UNCHANGED <<execVars, streamVars, purgeVars, cleanVars, confirmVars, moPathVars, sizeVars, feedVars,
                zipVars, ansiVars, uninstallVars, parsersVars, listVars, detailsVars, statusVars>>

\* discoverPurgeTargets resolves: setItems(found), calculateSizes(found) up
\* to its first await, then the finally block of scan
ScanFound(n, twice) ==
    /\ sizesPc = "discovering"
    /\ LET found == foundItems(n, twice)
       IN  /\ viewItems' = found
           /\ initialItems' = found
           /\ batchI' = 0
           /\ duProcs' = startBatch([k \in 1..n |-> "pending"], found, 0)
           /\ sizesPc' = IF n = 0 THEN "done" ELSE "sizing"
    /\ viewIsLoading' = FALSE
    /\ UNCHANGED scanToast
    /\ SizesFrame

\* discoverPurgeTargets rejects: the catch block and the finally block
ScanFailed ==
    /\ sizesPc = "discovering"
    /\ scanToast' = "Failed to scan projects"
    /\ viewIsLoading' = FALSE
    /\ sizesPc' = "done"
    /\ UNCHANGED <<viewItems, initialItems, batchI, duProcs>>
    /\ SizesFrame

\* the du process of the item k settles; when it is the last of its batch,
\* Promise.all resolves and the loop goes on to the next batch or ends
DuSettled(k, outcome) ==
    /\ sizesPc = "sizing"
    /\ duProcs[k] = "running"
    /\ outcome = "sized" \/ Cardinality(notSized(duProcs)) < MaxFailures
    /\ viewItems' = CASE outcome = "sized" ->
                           setSized(viewItems, initialItems[k].path, duKb(initialItems, initialItems[k].path))
                      [] outcome = "failed" -> setFailed(viewItems, initialItems[k].path)
                      [] OTHER -> viewItems
    /\ LET settled == [duProcs EXCEPT ![k] = outcome]
           batchDone == \A m \in slice(initialItems, batchI) : settled[m] # "running"
           next == batchI + batchSize
       IN  IF ~batchDone
           THEN /\ duProcs' = settled
                /\ UNCHANGED <<batchI, sizesPc>>
           ELSE /\ batchI' = next
                /\ duProcs' = startBatch(settled, initialItems, next)
                /\ sizesPc' = IF next < Len(initialItems) THEN "sizing" ELSE "done"
    /\ UNCHANGED <<viewIsLoading, scanToast, initialItems>>
    /\ SizesFrame

NextSizes ==
    \/ \E n \in 0..MaxItems, twice \in BOOLEAN : ScanFound(n, twice)
    \/ ScanFailed
    \/ \E k \in DOMAIN duProcs, outcome \in DuOutcomes : DuSettled(k, outcome)

----------------------------------------------------------------------------
(***************************************************************************)
(* purge.tsx: the walk over a disk that is there when the scan starts: a   *)
(* chain of project directories below HOME, and below its end a directory  *)
(* with a child and a second directory, of any of the names of DirNames.   *)
(***************************************************************************)
\* app, app/app, ...
chain(n) == [k \in 1..n |-> "app"]

\* a path and every directory above it
withParents(path) == {SubSeq(path, 1, n) : n \in 1..Len(path)}

WalkTrees ==
    {withParents(chain(n) \o <<a, b>>) \cup withParents(chain(n) \o <<c>>) :
        n \in 0..MaxNest, a \in DirNames, b \in DirNames, c \in DirNames}

WalkInit ==
    /\ fsTree \in WalkTrees
    /\ pgPhase = "setup"
    /\ pgSearchPaths = <<>>
    /\ pgRoot = 0
    /\ pgStack = <<>>
    /\ pgItems = <<>>
    /\ pgReads = {}

\* purge_paths is missing, or holds one directory of the disk
WalkCustom == {<<>>} \cup {<<p>> : p \in fsTree}

NextWalk ==
    \/ \E custom \in WalkCustom : PgDiscover(custom)
    \/ \E name \in DirNames : PgVisit(name)
    \/ PgReturn
    \/ PgNextRoot

----------------------------------------------------------------------------
(***************************************************************************)
(* uninstall.tsx: parseSizeString, next to clean.tsx's parseSizeToBytes.   *)
(* A size string is the text before its first number, the number (n with   *)
(* dec decimals) and the word after it; "N/A" is all text and no number.   *)
(***************************************************************************)
SizeText(before, n, dec, unit) == [before |-> before, n |-> n, dec |-> dec, unit |-> unit]

NotAvailable == SizeText("N/A", 0, 0, "")

EmptyText == SizeText("", 0, 0, "")

SizeTexts ==
    {SizeText(before, n, dec, unit) :
        before \in {"", "about "}, n \in {1, 12, 120, 1500}, dec \in 0..2,
        unit \in {"B", "KB", "MB", "GB", "TB", "gb", "items", "files"}}
        \cup {NotAvailable, EmptyText}

\* /^([\d.]+)\s*(B|KB|MB|GB|TB)$/i
matchesWhole(sizeStr) ==
    sizeStr.before = "" /\ toUpperCase(sizeStr.unit) \in {"B", "KB", "MB", "GB", "TB"}

parseSizeString(sizeStr) ==
    IF sizeStr \in {NotAvailable, EmptyText} THEN ZeroBytes
    ELSE IF ~matchesWhole(sizeStr) THEN ZeroBytes
    ELSE LET value100 == IF sizeStr.dec = 0 THEN sizeStr.n * 100
                         ELSE IF sizeStr.dec = 1 THEN sizeStr.n * 10 ELSE sizeStr.n
             e == multiplierExp(toUpperCase(sizeStr.unit))
         IN  [k \in 0..4 |-> IF k = e THEN value100 ELSE 0]

\* parseSizeToBytes on the same text: /([\d.]+)\s*(\w+)/ finds the number
\* wherever it stands
parseSizeToBytesOfText(sizeStr) ==
    IF sizeStr \in {NotAvailable, EmptyText} THEN ZeroBytes
    ELSE parseSizeToBytes(Size(sizeStr.n, sizeStr.dec, sizeStr.unit))

ParsersInit ==
    /\ parsedText \in SizeTexts
    /\ parsersPc = "input"
    /\ cleanBytes = ZeroBytes
    /\ uninstallBytes = ZeroBytes

ParsersIdle ==
    /\ parsedText = EmptyText
    /\ parsersPc = "input"
    /\ cleanBytes = ZeroBytes
    /\ uninstallBytes = ZeroBytes

ParsersFrame ==
    UNCHANGED <<execVars, streamVars, purgeVars, cleanVars, confirmVars, moPathVars, sizeVars, feedVars,
                zipVars, ansiVars, uninstallVars, sizesVars, listVars, detailsVars, statusVars>>

\* both parsers are given the text
ParseBoth ==
    /\ parsersPc = "input"
    /\ cleanBytes' = parseSizeToBytesOfText(parsedText)
    /\ uninstallBytes' = parseSizeString(parsedText)
    /\ parsersPc' = "done"
    /\ UNCHANGED parsedText
    /\ ParsersFrame

NextParsers == ParseBoth

----------------------------------------------------------------------------
(***************************************************************************)
(* clean.tsx: getPathsForCategory.  A line of clean-list.txt is a sequence *)
(* of pieces: "===" (a run of equal signs), " ", "#", a section name, a    *)
(* path or a word.                                                         *)
(***************************************************************************)
ListedPaths == {"/cache/chrome", "/cache/npm"}

ListLines ==
    {<<"===", " ", "Browser Caches", " ", "===">>,
     <<"===", "developer tools", "===">>,
     <<"/cache/chrome">>,
     <<" ", "/cache/npm", " ", "#", " ", "note">>,
     <<"#", " ", "/cache/chrome">>,
     <<" ">>,
     <<"~/cache">>}

ListCategories == {"Browser Caches", "Developer Tools"}

\* String.prototype.toLowerCase, on the pieces
toLowerCase(piece) ==
    CASE piece = "Browser Caches" -> "browser caches"
      [] piece = "Developer Tools" -> "developer tools"
      [] OTHER -> piece

\* trimmed.startsWith("===") && trimmed.endsWith("===")
isSectionHeader(trimmed) == trimmed # <<>> /\ Head(trimmed) = "===" /\ trimmed[Len(trimmed)] = "==="

\* .replace(/^=+\s*/, "")
dropLeadingEquals(s) == IF s # <<>> /\ Head(s) = "===" THEN TrimLeft(Tail(s)) ELSE s

\* .replace(/\s*=+$/, "")
dropTrailingEquals(s) ==
    IF s # <<>> /\ s[Len(s)] = "===" THEN TrimRight(SubSeq(s, 1, Len(s) - 1)) ELSE s

\* the name between the equal signs
sectionName(trimmed) == Trim(dropTrailingEquals(dropLeadingEquals(trimmed)))

\* a comparison that tells upper case from lower case
sameName_exact(name, categoryName) == name = <<categoryName>>

\* name.toLowerCase() === categoryName.toLowerCase()
sameName(name, categoryName) ==
    [n \in 1..Len(name) |-> toLowerCase(name[n])] = <<toLowerCase(categoryName)>>

\* trimmed.split("#")[0]
RECURSIVE beforeHash(_)
beforeHash(s) ==
    IF s = <<>> \/ Head(s) = "#" THEN <<>> ELSE <<Head(s)>> \o beforeHash(Tail(s))

\* pathPart.startsWith("/")
startsWithRoot(pathPart) == Len(pathPart) >= 1 /\ pathPart[1] \in ListedPaths \cup {"/cache/gone"}

\* the body of the for loop: st holds inCategory and paths
listStep(st, line, categoryName, disk) ==
    LET trimmed == Trim(line)
        pathPart == Trim(beforeHash(trimmed))
    IN  IF isSectionHeader(trimmed)
        THEN [st EXCEPT !.inCategory = sameName(sectionName(trimmed), categoryName)]
        ELSE IF ~st.inCategory THEN st
        ELSE IF trimmed = <<>> \/ Head(trimmed) = "#" THEN st
        ELSE IF pathPart # <<>> /\ startsWithRoot(pathPart) /\ Len(pathPart) = 1 /\ pathPart[1] \in disk
             THEN [st EXCEPT !.paths = Append(@, pathPart[1])]
             ELSE st

RECURSIVE listLoop(_, _, _, _)
listLoop(st, lines, categoryName, disk) ==
    IF lines = <<>> THEN st
    ELSE listLoop(listStep(st, Head(lines), categoryName, disk), Tail(lines), categoryName, disk)

getPathsForCategory(content, readable, categoryName, disk) ==
    IF ~readable THEN <<>>
    ELSE listLoop([inCategory |-> FALSE, paths |-> <<>>], content, categoryName, disk).paths

ListInit ==
    /\ listFile \in SeqsUpTo(ListLines, MaxFileLines)
    /\ listDisk \in {ListedPaths, {"/cache/chrome"}}
    /\ listCategory \in ListCategories
    /\ listPc = "call"
    /\ listReadable = TRUE
    /\ listResult = <<>>

ListIdle ==
    /\ listFile = <<>>
    /\ listDisk = {}
    /\ listCategory = ""
    /\ listPc = "call"
    /\ listReadable = TRUE
    /\ listResult = <<>>

ListFrame ==
    UNCHANGED <<execVars, streamVars, purgeVars, cleanVars, confirmVars, moPathVars, sizeVars, feedVars,
                zipVars, ansiVars, uninstallVars, sizesVars, parsersVars, detailsVars, statusVars>>

\* getPathsForCategory(listCategory); readFileSync returns the content or throws
GetPathsForCategory(readable) ==
    /\ listPc = "call"
    /\ listReadable' = readable
    /\ listResult' = getPathsForCategory(listFile, readable, listCategory, listDisk)
    /\ listPc' = "done"
    /\ UNCHANGED <<listFile, listDisk, listCategory>>
    /\ ListFrame

NextList == \E readable \in BOOLEAN : GetPathsForCategory(readable)

----------------------------------------------------------------------------
(***************************************************************************)
(* uninstall.tsx: parseDryRunDetailsOutput.  A line is given by what the   *)
(* parser looks at: the glyph it starts with, the number of fields between *)
(* its "|" separators, whether its first field ends in a size, and its     *)
(* text.  Every record made from a line carries the position of the line.  *)
(***************************************************************************)
DetailLine(glyph, text, fields, sized) == [glyph |-> glyph, text |-> text, fields |-> fields, sized |-> sized]

DetailLines ==
    {DetailLine("ARROW", "Alpha", 5, TRUE),
     DetailLine("ARROW", "Beta", 3, TRUE),
     DetailLine("ARROW", "Gamma", 5, FALSE),
     DetailLine("BRANCH", "~/Library/Caches/x", 1, TRUE),
     DetailLine("BRANCH", "~/Library/Logs/x", 1, FALSE),
     DetailLine("TEXT", "Scanning applications", 1, FALSE)}

\* the body of the for loop, on the line at position n; currentApp is the
\* position in found of the object the variable holds, 0 for null
detailsStep(st, line, n) ==
    IF line.glyph = "ARROW"
    THEN IF line.fields < 4 \/ ~line.sized THEN st
         ELSE [found |-> Append(st.found, [name |-> line.text, line |-> n, leftoverFiles |-> <<>>]),
               currentApp |-> Len(st.found) + 1]
    ELSE IF st.currentApp # 0 /\ line.glyph = "BRANCH" /\ line.sized
         THEN [st EXCEPT !.found[st.currentApp].leftoverFiles = Append(@, [path |-> line.text, line |-> n])]
         ELSE st

RECURSIVE detailsLoop(_, _, _)
detailsLoop(st, lines, n) ==
    IF n > Len(lines) THEN st ELSE detailsLoop(detailsStep(st, lines[n], n), lines, n + 1)

parseDryRunDetailsOutput(lines) == detailsLoop([found |-> <<>>, currentApp |-> 0], lines, 1).found

DetailsInit ==
    /\ detailsOutput \in SeqsUpTo(DetailLines, MaxDetailLines)
    /\ detailsPc = "call"
    /\ detailsFound = <<>>

DetailsIdle ==
    /\ detailsOutput = <<>>
    /\ detailsPc = "call"
    /\ detailsFound = <<>>

DetailsFrame ==
    UNCHANGED <<execVars, streamVars, purgeVars, cleanVars, confirmVars, moPathVars, sizeVars, feedVars,
                zipVars, ansiVars, uninstallVars, sizesVars, parsersVars, listVars, statusVars>>

ParseDetails ==
    /\ detailsPc = "call"
    /\ detailsFound' = parseDryRunDetailsOutput(detailsOutput)
    /\ detailsPc' = "done"
    /\ UNCHANGED detailsOutput
    /\ DetailsFrame

NextDetails == ParseDetails

----------------------------------------------------------------------------
(***************************************************************************)
(* uninstall.tsx: one fetchApps run over a longer list of applications,    *)
(* none of them with its leftovers in the fast scan but perhaps the first. *)
(***************************************************************************)
appPath(n) == "/Applications/App" \o ToString(n) \o ".app"

PoolFoundLists ==
    {[k \in 1..n |-> [path |-> appPath(k), detailed |-> d /\ k = 1]] : n \in 0..MaxApps, d \in BOOLEAN}

\* the mount effect
FirstFetch == Len(fetches) = 0 /\ FetchApps

NextPool ==
    \/ FirstFetch
    \/ \E f \in FetchIds, found \in PoolFoundLists : FetchListed(f, found)
    \/ \E f \in FetchIds : FetchFailed(f)
    \/ \E f \in FetchIds, w \in Workers, result \in ScanResults : WorkerScanned(f, w, result)

----------------------------------------------------------------------------
(***************************************************************************)
(* status.tsx: refresh and the interval effect of the status view.  Every  *)
(* shell command collect() runs goes through sh(), which has a timeout and *)
(* catches its errors, so a run of collect() always ends.                  *)
(***************************************************************************)
\* a refresh that collects whether or not another one is running
alreadyFetching_never(flag) == FALSE

\* if (isFetchingRef.current) return;
alreadyFetching(flag) == flag

StatusInit ==
    /\ statusData = "null"
    /\ statusIsLoading = TRUE
    /\ statusToast = ""
    /\ isFetchingRef = FALSE
    /\ intervalRef = "unset"
    /\ refreshCalls = <<>>

StatusIdle == StatusInit

StatusFrame ==
    UNCHANGED <<execVars, streamVars, purgeVars, cleanVars, confirmVars, moPathVars, sizeVars, feedVars,
                zipVars, ansiVars, uninstallVars, sizesVars, parsersVars, listVars, detailsVars>>

RefreshIds == 1..Len(refreshCalls)

\* refresh() up to its await: it returns at once when a run is in flight,
\* and else raises the flag and calls collect()
refresh(by) ==
    /\ Len(refreshCalls) < MaxRefreshes
    /\ IF alreadyFetching(isFetchingRef)
       THEN /\ refreshCalls' = Append(refreshCalls, [by |-> by, pc |-> "returned"])
            /\ UNCHANGED isFetchingRef
       ELSE /\ refreshCalls' = Append(refreshCalls, [by |-> by, pc |-> "collecting"])
            /\ isFetchingRef' = TRUE

\* the effect after the first render: refresh() and setInterval
MountEffect ==
    /\ intervalRef = "unset"
    /\ refresh("mount")
    /\ intervalRef' = "set"
    /\ UNCHANGED <<statusData, statusIsLoading, statusToast>>
    /\ StatusFrame

\* the interval fires after REFRESH_MS
IntervalTick ==
    /\ intervalRef = "set"
    /\ refresh("interval")
    /\ UNCHANGED <<statusData, statusIsLoading, statusToast, intervalRef>>
    /\ StatusFrame

\* the user picks the Refresh action of the view
UserRefresh ==
    /\ intervalRef = "set"
    /\ refresh("user")
    /\ UNCHANGED <<statusData, statusIsLoading, statusToast, intervalRef>>
    /\ StatusFrame

\* collect() of the refresh c resolves: setData, then the finally block
CollectResolved(c) ==
    /\ refreshCalls[c].pc = "collecting"
    /\ statusData' = "collected"
    /\ statusIsLoading' = FALSE
    /\ isFetchingRef' = FALSE
    /\ refreshCalls' = [refreshCalls EXCEPT ![c].pc = "done"]
    /\ UNCHANGED <<statusToast, intervalRef>>
    /\ StatusFrame

\* collect() of the refresh c rejects: the catch block, then the finally block
CollectRejected(c) ==
    /\ refreshCalls[c].pc = "collecting"
    /\ statusToast' = "Failed to load status"
    /\ statusIsLoading' = FALSE
    /\ isFetchingRef' = FALSE
    /\ refreshCalls' = [refreshCalls EXCEPT ![c].pc = "failed"]
    /\ UNCHANGED <<statusData, intervalRef>>
    /\ StatusFrame

\* the view is closed: the cleanup of the effect clears the interval
Unmount ==
    /\ intervalRef = "set"
    /\ intervalRef' = "cleared"
    /\ UNCHANGED <<statusData, statusIsLoading, statusToast, isFetchingRef, refreshCalls>>
    /\ StatusFrame

NextStatus ==
    \/ MountEffect
    \/ IntervalTick
    \/ UserRefresh
    \/ \E c \in RefreshIds : CollectResolved(c)
    \/ \E c \in RefreshIds : CollectRejected(c)
    \/ Unmount

----------------------------------------------------------------------------
(***************************************************************************)
(* The specifications, one per component.                                  *)
(***************************************************************************)
InitExec == ExecInit /\ StreamIdle /\ PurgeIdle /\ CleanIdle /\ ConfirmIdle /\ MoPathIdle /\ SizeIdle /\ FeedIdle /\ ZipIdle
        /\ AnsiIdle /\ UninstallIdle /\ SizesIdle /\ ParsersIdle /\ ListIdle /\ DetailsIdle /\ StatusIdle

SpecExec == InitExec /\ [][NextExec]_vars

InitStream == StreamInit /\ ExecIdle /\ PurgeIdle /\ CleanIdle /\ ConfirmIdle /\ MoPathIdle /\ SizeIdle /\ FeedIdle /\ ZipIdle
        /\ AnsiIdle /\ UninstallIdle /\ SizesIdle /\ ParsersIdle /\ ListIdle /\ DetailsIdle /\ StatusIdle

SpecStream == InitStream /\ [][NextStream]_vars

InitPurge == PurgeInit /\ ExecIdle /\ StreamIdle /\ CleanIdle /\ ConfirmIdle /\ MoPathIdle /\ SizeIdle /\ FeedIdle /\ ZipIdle
        /\ AnsiIdle /\ UninstallIdle /\ SizesIdle /\ ParsersIdle /\ ListIdle /\ DetailsIdle /\ StatusIdle

SpecPurge == InitPurge /\ [][NextPurge]_vars

InitClean == CleanInit /\ ExecIdle /\ StreamIdle /\ PurgeIdle /\ ConfirmIdle /\ MoPathIdle /\ SizeIdle /\ FeedIdle /\ ZipIdle
        /\ AnsiIdle /\ UninstallIdle /\ SizesIdle /\ ParsersIdle /\ ListIdle /\ DetailsIdle /\ StatusIdle

SpecClean == InitClean /\ [][NextClean]_vars

InitConfirm == ConfirmInit /\ ExecIdle /\ StreamIdle /\ PurgeIdle /\ CleanIdle /\ MoPathIdle /\ SizeIdle /\ FeedIdle /\ ZipIdle
        /\ AnsiIdle /\ UninstallIdle /\ SizesIdle /\ ParsersIdle /\ ListIdle /\ DetailsIdle /\ StatusIdle

SpecConfirm == InitConfirm /\ [][NextConfirm]_vars

InitMoPath == MoPathInit /\ StreamIdle /\ PurgeIdle /\ CleanIdle /\ ConfirmIdle /\ SizeIdle /\ FeedIdle /\ ZipIdle
        /\ AnsiIdle /\ UninstallIdle /\ SizesIdle /\ ParsersIdle /\ ListIdle /\ DetailsIdle /\ StatusIdle

SpecMoPath == InitMoPath /\ [][NextMoPath]_vars

InitSize == SizeInit /\ ExecIdle /\ StreamIdle /\ PurgeIdle /\ CleanIdle /\ ConfirmIdle /\ MoPathIdle /\ FeedIdle /\ ZipIdle
        /\ AnsiIdle /\ UninstallIdle /\ SizesIdle /\ ParsersIdle /\ ListIdle /\ DetailsIdle /\ StatusIdle

SpecSize == InitSize /\ [][NextSize]_vars

InitFeed ==
    FeedInit /\ CleanInit /\ ExecIdle /\ StreamIdle /\ PurgeIdle /\ ConfirmIdle /\ MoPathIdle /\ SizeIdle
        /\ ZipIdle /\ AnsiIdle /\ UninstallIdle /\ SizesIdle /\ ParsersIdle /\ ListIdle /\ DetailsIdle
        /\ StatusIdle

SpecFeed == InitFeed /\ [][NextFeed]_vars

InitZip ==
    ZipInit /\ ExecIdle /\ StreamIdle /\ PurgeIdle /\ CleanIdle /\ ConfirmIdle /\ MoPathIdle /\ SizeIdle
        /\ FeedIdle /\ AnsiIdle /\ UninstallIdle /\ SizesIdle /\ ParsersIdle /\ ListIdle /\ DetailsIdle
        /\ StatusIdle

SpecZip == InitZip /\ [][NextZip]_vars

InitAnsi ==
    AnsiInit /\ ExecIdle /\ StreamIdle /\ PurgeIdle /\ CleanIdle /\ ConfirmIdle /\ MoPathIdle /\ SizeIdle
        /\ FeedIdle /\ ZipIdle /\ UninstallIdle /\ SizesIdle /\ ParsersIdle /\ ListIdle /\ DetailsIdle
        /\ StatusIdle

SpecAnsi == InitAnsi /\ [][NextAnsi]_vars

InitUninstall ==
    UninstallInit /\ ExecIdle /\ StreamIdle /\ PurgeIdle /\ CleanIdle /\ ConfirmIdle /\ MoPathIdle /\ SizeIdle
        /\ FeedIdle /\ ZipIdle /\ AnsiIdle /\ SizesIdle /\ ParsersIdle /\ ListIdle /\ DetailsIdle
        /\ StatusIdle

SpecUninstall == InitUninstall /\ [][NextUninstall]_vars

InitSizes ==
    SizesInit /\ ExecIdle /\ StreamIdle /\ PurgeIdle /\ CleanIdle /\ ConfirmIdle /\ MoPathIdle /\ SizeIdle
        /\ FeedIdle /\ ZipIdle /\ AnsiIdle /\ UninstallIdle /\ ParsersIdle /\ ListIdle /\ DetailsIdle
        /\ StatusIdle

SpecSizes == InitSizes /\ [][NextSizes]_vars

InitWalk ==
    WalkInit /\ ExecIdle /\ StreamIdle /\ CleanIdle /\ ConfirmIdle /\ MoPathIdle /\ SizeIdle /\ FeedIdle
        /\ ZipIdle /\ AnsiIdle /\ UninstallIdle /\ SizesIdle /\ ParsersIdle /\ ListIdle /\ DetailsIdle
        /\ StatusIdle

SpecWalk == InitWalk /\ [][NextWalk]_vars

InitParsers ==
    ParsersInit /\ ExecIdle /\ StreamIdle /\ PurgeIdle /\ CleanIdle /\ ConfirmIdle /\ MoPathIdle /\ SizeIdle
        /\ FeedIdle /\ ZipIdle /\ AnsiIdle /\ UninstallIdle /\ SizesIdle /\ ListIdle /\ DetailsIdle
        /\ StatusIdle

SpecParsers == InitParsers /\ [][NextParsers]_vars

InitList ==
    ListInit /\ ExecIdle /\ StreamIdle /\ PurgeIdle /\ CleanIdle /\ ConfirmIdle /\ MoPathIdle /\ SizeIdle
        /\ FeedIdle /\ ZipIdle /\ AnsiIdle /\ UninstallIdle /\ SizesIdle /\ ParsersIdle /\ DetailsIdle
        /\ StatusIdle

SpecList == InitList /\ [][NextList]_vars

InitDetails ==
    DetailsInit /\ ExecIdle /\ StreamIdle /\ PurgeIdle /\ CleanIdle /\ ConfirmIdle /\ MoPathIdle /\ SizeIdle
        /\ FeedIdle /\ ZipIdle /\ AnsiIdle /\ UninstallIdle /\ SizesIdle /\ ParsersIdle /\ ListIdle
        /\ StatusIdle

SpecDetails == InitDetails /\ [][NextDetails]_vars

InitPool ==
    UninstallInit /\ ExecIdle /\ StreamIdle /\ PurgeIdle /\ CleanIdle /\ ConfirmIdle /\ MoPathIdle /\ SizeIdle
        /\ FeedIdle /\ ZipIdle /\ AnsiIdle /\ SizesIdle /\ ParsersIdle /\ ListIdle /\ DetailsIdle
        /\ StatusIdle

SpecPool == InitPool /\ [][NextPool]_vars

InitStatus ==
    StatusInit /\ ExecIdle /\ StreamIdle /\ PurgeIdle /\ CleanIdle /\ ConfirmIdle /\ MoPathIdle /\ SizeIdle
        /\ FeedIdle /\ ZipIdle /\ AnsiIdle /\ UninstallIdle /\ SizesIdle /\ ParsersIdle /\ ListIdle /\ DetailsIdle

SpecStatus == InitStatus /\ [][NextStatus]_vars

----------------------------------------------------------------------------
(***************************************************************************)
(* Properties of getMoPath and execMo.                                     *)
(***************************************************************************)
ExecMoDone == execPc = "done" /\ execOutcome.cause # "none"

\* C4 (as stated): an execMo call cut short by the 300 s timeout or by the
\* 10 MiB output cap always ends in a rejection, never in a successful
\* return of the partial stdout.
C4_LimitsAlwaysReject ==
    (ExecMoDone /\ execOutcome.cause \in {"timeout", "maxBuffer"}) =>
        execResult.kind = "rejected"

\* the text execMo throws for each argument list, written out
C6_FailureText(args) ==
    CASE args = <<"clean">> -> "mo clean failed: Command failed"
      [] args = <<"optimize">> -> "mo optimize failed: Command failed"
      [] args = <<"uninstall", "--batch", "/Applications/A.app">> ->
            "mo uninstall --batch /Applications/A.app failed: Command failed"
      [] OTHER -> "?"

\* C6 (as stated): after a non-zero exit execMo returns stdout whenever it is
\* non-empty and rejects only when it is empty.
C6_NonEmptyStdoutReturned ==
    (ExecMoDone /\ execOutcome.cause = "exitNonZero") =>
        /\ execOutcome.stdout # <<>> =>
              (execResult.kind = "returned" /\ execResult.stdout = execOutcome.stdout)
        /\ execResult.kind = "rejected" => execOutcome.stdout = <<>>

\* C6 (amended): after a non-zero exit execMo returns the captured stdout
\* exactly when it holds a character that is not white space; otherwise it
\* rejects with an error that carries the joined arguments and the
\* diagnostic text.
C6_NonBlankStdoutReturned ==
    (ExecMoDone /\ execOutcome.cause = "exitNonZero") =>
        IF \E i \in 1..Len(execOutcome.stdout) : execOutcome.stdout[i] \notin {" ", "\n"}
        THEN execResult.kind = "returned" /\ execResult.stdout = execOutcome.stdout
        ELSE execResult.kind = "rejected" /\ execResult.message = C6_FailureText(execArgs)

\* a non-zero exit whose stdout is white space only has been rejected
C6_Witness ==
    /\ ExecMoDone
    /\ execOutcome.cause = "exitNonZero"
    /\ execOutcome.stdout = <<"\n">>
    /\ execResult.kind = "rejected"

UncachedLookup == moLookup.ranWhich \/ (moLookup # NoLookup /\ ~moLookup.fromCache)

ListHit(fs) == \E i \in 1..Len(MO_SEARCH_PATHS) : MO_SEARCH_PATHS[i] \in fs

IsFirstListed(p, fs) ==
    \E i \in 1..Len(MO_SEARCH_PATHS) :
        /\ p = MO_SEARCH_PATHS[i]
        /\ p \in fs
        /\ \A j \in 1..(i - 1) : MO_SEARCH_PATHS[j] \notin fs

WhichHit(w, fs) == ~w.threw /\ w.stdout # "" /\ w.stdout \in fs

----------------------------------------------------------------------------
(***************************************************************************)
(* Properties of spawnMoStreaming.                                         *)
(***************************************************************************)
\* the text the engine wrote, decoded as a whole
WholeText == toString(smAll)

\* the newline-terminated lines of a text, then its non-empty remainder
LinesOfText(text) ==
    LET pieces == split(text)
        last == pieces[Len(pieces)]
    IN  SubSeq(pieces, 1, Len(pieces) - 1) \o (IF last # <<>> THEN <<last>> ELSE <<>>)

\* the process ran to its end and closed, without timeout
ClosedNormally == smProc = "closed" /\ smSent = Len(smAll) /\ smTimer # "fired"

\* the text after the last newline is empty or holds a visible character
\* (a remainder of white space only is not flushed by the 'close' handler)
RemainderNotBlank(text) ==
    LET last == split(text)[Len(split(text))]
    IN  last = <<>> \/ \E i \in 1..Len(last) : last[i] \notin {" ", "\n"}

\* C3 (as stated, on the streams whose remainder is empty or not blank):
\* however stdout is cut into chunks, the strings passed to onLine are the
\* newline-terminated lines of the whole stdout, in order, followed by the
\* non-empty unterminated remainder.
C3_LinesAreLinesOfStdout ==
    (ClosedNormally /\ RemainderNotBlank(WholeText)) => smLines = LinesOfText(WholeText)

IsPrefix(s, t) == Len(s) <= Len(t) /\ SubSeq(t, 1, Len(s)) = s

\* C5: when the timer fires on a process that has not exited, the process
\* is killed and the promise is resolved; a resolved promise is never
\* rejected later, and the lines delivered so far stay delivered.
C5_TimeoutKillsAndResolves ==
    [][/\ (smTimer = "armed" /\ smTimer' = "fired" /\ smProc = "running") =>
              (smProc' = "killed" /\ smPromise' = "resolved")
       /\ smPromise = "resolved" => smPromise' = "resolved"
       /\ IsPrefix(smLines, smLines')]_vars

\* the timeout has killed a process that had delivered a line, and resolved
C5_Witness ==
    /\ smTimer = "fired"
    /\ smProc = "killed"
    /\ smPromise = "resolved"
    /\ smSettledAt >= 1
    /\ Len(smLines) = smSettledAt

----------------------------------------------------------------------------
(***************************************************************************)
(* Properties of the purge scanner.                                        *)
(***************************************************************************)
\* path p is path q or lies above it
AtOrAbove(p, q) == Len(p) <= Len(q) /\ SubSeq(q, 1, Len(p)) = p

\* C7: within one walk from a root, a matched target directory is recorded
\* and neither it nor anything below it is read, so no directory below a
\* reported one is reported by the same walk.
C7_MatchedTargetNeverEntered ==
    \A i \in 1..Len(pgItems) :
        /\ \A r \in pgReads : r.walk = pgItems[i].walk => ~AtOrAbove(pgItems[i].path, r.dir)
        /\ \A j \in 1..Len(pgItems) :
               (i # j /\ pgItems[i].walk = pgItems[j].walk) =>
                   ~AtOrAbove(pgItems[i].path, pgItems[j].path)

\* the scan of HOME/app/node_modules/app/node_modules is over: the walk from
\* HOME has reported the outer node_modules
C7_Witness ==
    /\ pgPhase = "done"
    /\ <<"app", "node_modules", "app", "node_modules">> \in fsTree
    /\ \E i \in 1..Len(pgItems) : pgItems[i].path = <<"app", "node_modules">>

\* C8 (as stated, for the roots built from the conventional folders and
\* HOME, with no purge_paths entry): the list discoverPurgeTargets returns
\* holds no path twice and no path that lies inside another returned path.
C8_NoDuplicateOrNestedPath ==
    (pgPhase = "done" /\ pgSearchPaths = conventionalPaths) =>
        \A i, j \in 1..Len(pgItems) : i # j => ~AtOrAbove(pgItems[i].path, pgItems[j].path)

----------------------------------------------------------------------------
(***************************************************************************)
(* Properties of the clean view.                                           *)
(***************************************************************************)
\* the run k is over: its process has gone and its runDryRun has returned
ScanSettled(k) == scans[k].proc \in {"closed", "failed", "notFound"} /\ scans[k].pc = "done"

\* the step is a callback, completion, catch or finally step of the run k
StepOfScan(k) == k \in ScanIds /\ scans'[k] # scans[k]

\* every record shown was parsed from a line of the run k
OnlyRecordsOf(k) ==
    /\ \A i \in 1..Len(categories) :
          /\ categories[i].scan = k
          /\ \A j \in 1..Len(categories[i].items) : categories[i].items[j].scan = k
    /\ \A i \in 1..Len(summary) : summary[i].scan = k

StaleStepChangesNothing ==
    \A k \in ScanIds :
        StepOfScan(k) /\ k # currentScanIdRef
            => UNCHANGED <<categories, summary, scanStatus, error, isLoading, categoriesRef,
                           currentCategoryRef>>

SettledShowsLatestOnly ==
    (\A k \in ScanIds : ScanSettled(k)) => OnlyRecordsOf(currentScanIdRef)

\* C1: a step of a run that runs after a later run was started changes none
\* of categories, summary, scanStatus, error, isLoading and the refs; and
\* once every run has settled, categories and summary hold only records
\* parsed from the lines of the latest run.
C1_StaleScanIsolated == [][StaleStepChangesNothing /\ SettledShowsLatestOnly']_vars

\* two runs, the first one still delivering lines after the second was
\* started, both settled, and the view showing what the second one found
C1_Witness ==
    /\ Len(scans) = 2
    /\ ScanSettled(1) /\ ScanSettled(2)
    /\ scans[1].staleLines > 0
    /\ scans[1].headers # <<>>
    /\ categories # <<>>

categoryNames(cs) == [i \in 1..Len(cs) |-> cs[i].name]

\* C2: when the stream of the run that was not superseded has ended, the
\* categories committed are, one for one and in order, the section headers
\* of the stream: their number is the number of header lines.
C2_OneCategoryPerHeader ==
    \A k \in ScanIds :
        k = currentScanIdRef /\ scans[k].proc = "closed"
            => /\ categoryNames(categories) = scans[k].headers
               /\ categoryNames(categoriesRef) = scans[k].headers

----------------------------------------------------------------------------
(***************************************************************************)
(* Properties of confirmAndExecute.                                        *)
(***************************************************************************)
\* every operation started belongs to a call whose dialog returned true,
\* and is an operation of the action that call was made for
StartedOnlyConfirmed ==
    \A n \in 1..Len(started) :
        LET c == calls[started[n].call]
        IN  /\ c.confirmed = "yes"
            /\ started[n].op = "execMo" => c.action \in EngineActions /\ started[n].args = engineArgs(c)
            /\ started[n].op = "trash" => c.action \in TrashActions \cup {"uninstallApp"}

OnConfirmOnceIfConfirmed ==
    \A i \in CallIds : calls[i].entered <= 1 /\ (calls[i].entered = 1 => calls[i].confirmed = "yes")

\* the step is the dialog of the call i returning false
Declines(i) == calls[i].pc = "alert" /\ calls'[i].confirmed = "no"

DeclineChangesNothing ==
    \A i \in CallIds :
        Declines(i) => /\ UNCHANGED <<started, purgeItems, trashed, refreshes>>
                       /\ calls'[i].pc = "returned"
                       /\ calls'[i].outer = "" /\ calls'[i].inner = ""

\* C9: confirmAndExecute starts an engine invocation or a trash operation
\* only for a call whose dialog returned true; onConfirm is entered at
\* most once per call and only after confirmation; a declined call
\* returns with nothing started and nothing changed.
C9_ConfirmationGates ==
    [][DeclineChangesNothing /\ StartedOnlyConfirmed' /\ OnConfirmOnceIfConfirmed']_vars

\* one call declined and returned, another confirmed with its trash
\* operation done and the item gone from the list
C9_Witness ==
    \E i, j \in CallIds :
        /\ calls[i].confirmed = "no" /\ calls[i].pc = "returned"
        /\ calls[j].confirmed = "yes" /\ calls[j].pc = "returned" /\ calls[j].action = "purgeItem"
        /\ calls[j].paths \subseteq trashed
        /\ calls[j].paths \cap purgeItems = {}

----------------------------------------------------------------------------
(***************************************************************************)
(* Properties of the getMoPath cache.                                      *)
(***************************************************************************)
\* the call i was made after some call had succeeded, and has returned
LaterCall(i) == moCalls[i].pc = "done" /\ moCalls[i].prior # {}

\* the calls that ran `which` and have its answer
Resolved == {i \in MoCallIds : moCalls[i].pc = "done" /\ moCalls[i].result.ranWhich}

\* `which` behaved as a search of one PATH: it named a file that was there
\* or nothing, and gave the same answer whenever the disk was the same
WhichSearchesPath ==
    \A i, j \in Resolved :
        LET ri == moCalls[i].result
            rj == moCalls[j].result
        IN  /\ ri.which.stdout \in ri.disk \cup {""}
            /\ ri.disk = rj.disk => ri.which = rj.which

\* C11: once a call of getMoPath has succeeded with p, every later call
\* returns p, from the cache, without running `which` and without probing
\* the disk, whatever happened to the disk in between.
C11_FirstSuccessIsKept ==
    \A i \in MoCallIds :
        LaterCall(i) /\ WhichSearchesPath =>
            /\ moCalls[i].result.ok
            /\ moCalls[i].prior = {moCalls[i].result.path}
            /\ moCalls[i].result.fromCache
            /\ ~moCalls[i].result.ranWhich
            /\ moCalls[i].result.probed = {}

----------------------------------------------------------------------------
(***************************************************************************)
(* Properties of the size helpers.                                         *)
(***************************************************************************)
\* the number a size record stands for, in hundredths
hundredths(size) ==
    IF size.dec = 0 THEN size.n * 100 ELSE IF size.dec = 1 THEN size.n * 10 ELSE size.n

\* half a unit of the last digit shown for a unit, in hundredths
displayRounding(unit) == IF unit = "B" THEN 0 ELSE IF unit = "KB" THEN 50 ELSE 5

\* the number of the string is one its own unit shows: 1 <= n < 1024
InUnitRange(size) == hundredths(size) >= 100 /\ hundredths(size) < 102400

SameUnitAndValue(in, out) ==
    /\ out.unit = in.unit
    /\ hundredths(out) - hundredths(in) <= displayRounding(in.unit)
    /\ hundredths(in) - hundredths(out) <= displayRounding(in.unit)

\* C12: for a size string <n><unit> with unit in B, KB, MB, GB, TB, the
\* formatted parse is in the same unit and its value is n up to the
\* rounding of the display.
C12_RoundTripKeepsUnit ==
    sizePc = "done" /\ sizeInput.unit \in RoundTripUnits /\ InUnitRange(sizeInput)
        => SameUnitAndValue(sizeInput, sizeText)

----------------------------------------------------------------------------
(***************************************************************************)
(* Properties of the parser of the clean view over one stream.             *)
(***************************************************************************)
\* the scan fed feedAll is over
FeedDone == Len(scans) = 1 /\ scans[1].proc = "closed" /\ feed = <<>>

itemsOf(category) == [j \in 1..Len(category.items) |->
                         [description |-> category.items[j].description, size |-> category.items[j].size]]

\* C13: fed the header of Browser Caches, the item "Chrome cache, 1.20GB
\* dry", the header of Developer Tools, "Nothing to clean" and the summary
\* line "1.20GB | 1 | 2", the parser ends with exactly the two categories
\* in that order, the first with the one item of size 1.20GB, the second
\* with no item, and the summary 1.20GB, 1 item, 2 categories.
C13_Scenario1 ==
    FeedDone /\ feedAll = Scenario1
        => /\ categoryNames(categories) = <<"Browser Caches", "Developer Tools">>
           /\ itemsOf(categories[1]) = <<[description |-> "Chrome cache", size |-> Size(120, 2, "GB")]>>
           /\ itemsOf(categories[2]) = <<>>
           /\ Len(summary) = 1
           /\ summary[1].totalSize = Size(120, 2, "GB")
           /\ summary[1].totalItems = "1"
           /\ summary[1].totalCategories = "2"

\* the scenario was fed to the end and the view shows two categories
C13_Witness == FeedDone /\ feedAll = Scenario1 /\ Len(categories) = 2 /\ ~isLoading

----------------------------------------------------------------------------
(***************************************************************************)
(* Properties of isInstallerZip.                                           *)
(***************************************************************************)
\* the components of a path: what lies between its "/" pieces
RECURSIVE components(_, _)
components(path, current) ==
    IF path = <<>> THEN <<current>>
    ELSE IF Head(path) = "/" THEN <<current>> \o components(Tail(path), <<>>)
    ELSE components(Tail(path), Append(current, Head(path)))

\* a component that ends in .app, .pkg, .dmg or .xip, in either case
EndsInPayloadExtension(component) ==
    component # <<>> /\ lowerCase(component[Len(component)]) \in PayloadExtensions

InstallerShaped(path) ==
    \E c \in 1..Len(components(path, <<>>)) : EndsInPayloadExtension(components(path, <<>>)[c])

\* some entry among the first 50 of the archive is installer shaped
PayloadInFirst50 ==
    \E n \in 1..Len(zipEntries) : n <= 50 /\ InstallerShaped(zipEntries[n])

\* C14: isInstallerZip says installer exactly when the listing succeeded
\* and one of the first 50 entries has a path component ending in .app,
\* .pkg, .dmg or .xip; a payload entry after the 50th does not count, and
\* an error while listing gives "not an installer".
C14_InstallerIffPayloadInFirst50 ==
    zipPc = "done" => (zipResult <=> (zipListing = "listed" /\ PayloadInFirst50))

\* an archive whose only payload entry is the 51st: not an installer
C14_Witness ==
    /\ zipPc = "done"
    /\ zipListing = "listed"
    /\ Len(zipEntries) = 51
    /\ zipEntries[51] = <<"payload", ".pkg">>
    /\ ~zipResult

----------------------------------------------------------------------------
(***************************************************************************)
(* Properties of stripAnsi.                                                *)
(***************************************************************************)
\* the text holds ESC [ parameters letter somewhere
HasCsi(text) ==
    \E i \in 1..Len(text), j \in 1..Len(text) :
        /\ i + 1 < j
        /\ text[i] = "ESC" /\ text[i + 1] = "["
        /\ \A k \in (i + 2)..(j - 1) : isParam(text[k])
        /\ isLetter(text[j])

\* the text holds ESC ] ... BEL somewhere
HasOsc(text) ==
    \E i \in 1..Len(text), j \in 1..Len(text) :
        /\ i + 1 < j
        /\ text[i] = "ESC" /\ text[i + 1] = "]"
        /\ \A k \in (i + 2)..(j - 1) : text[k] # "\n"
        /\ text[j] = "BEL"

\* C15: the result of stripAnsi holds no CSI and no OSC sequence, a second
\* application changes nothing, and a text without escape sequences comes
\* back unchanged.
C15_StripAnsiRemovesAll ==
    ansiPc = "done" =>
        /\ ~HasCsi(ansiOut) /\ ~HasOsc(ansiOut)
        /\ stripAnsi(ansiOut) = ansiOut
        /\ (~HasCsi(ansiText) /\ ~HasOsc(ansiText) => ansiOut = ansiText)

----------------------------------------------------------------------------
(***************************************************************************)
(* Properties of the uninstall view.                                       *)
(***************************************************************************)
\* the fetches that have installed their maps
Installed == {f \in FetchIds : fetches[f].pc = "scanning"}

\* the newest of them
Newest == CHOOSE f \in Installed : \A g \in Installed : g <= f

\* the fetch f has not finished its own scan of app yet
ScanPending(f, app) ==
    \/ \E w \in Workers : fetches[f].workers[w] = [state |-> "scanning", app |-> app]
    \/ \E n \in (fetches[f].i + 1)..Len(fetches[f].toScan) : fetches[f].toScan[n] = app

\* C16: once a newer fetchApps has installed its maps, nothing an earlier
\* worker writes is in leftoversMap, displayMap or scanningApps: every
\* entry is one the newer fetch produced, and an application stays in
\* scanningApps until the newer fetch's own scan of it has finished.
C16_NewerFetchNotContaminated ==
    Installed # {} =>
        /\ \A p \in DOMAIN leftoversMap : leftoversMap[p].fetch = Newest
        /\ \A p \in DOMAIN displayMap : displayMap[p].fetch = Newest
        /\ \A n \in 1..Len(fetches[Newest].toScan) :
              ScanPending(Newest, fetches[Newest].toScan[n]) => fetches[Newest].toScan[n] \in scanningApps

\* the lines delivered so far
delivered == SubSeq(feedAll, 1, Len(feedAll) - Len(feed))

\* the position of the last section header among the delivered lines, or 0
lastHeader ==
    LET hs == {n \in 1..Len(delivered) : lineRule(delivered[n], FALSE) = "header"}
    IN  IF hs = {} THEN 0 ELSE CHOOSE n \in hs : \A m \in hs : m <= n

\* the positions of the item lines delivered after the last section header
itemLinesOfOpen ==
    {n \in (lastHeader + 1)..Len(delivered) : lineRule(delivered[n], TRUE) \in {"dry", "would", "simple"}}

\* the next line delivered is a summary line
SummaryStep == FeedLine /\ lineRule(Head(feed), currentCategoryRef # <<>>) = "summary"

SummarySetsOnlySummary ==
    SummaryStep =>
        /\ summary' = <<[totalSize |-> Head(feed).sum.size, totalItems |-> Head(feed).sum.items,
                         totalCategories |-> Head(feed).sum.cats, scan |-> 1]>>
        /\ UNCHANGED <<categories, categoriesRef, currentCategoryRef, currentShared, isLoading, error,
                       scanStatus>>

\* while the engine runs, the open category is the one of the last header
\* and holds one item per item line since, summary lines in between or not
OpenCategoryKeepsItems ==
    (Len(scans) = 1 /\ scans[1].proc = "running" /\ lastHeader > 0) =>
        /\ currentCategoryRef # <<>>
        /\ currentCategoryRef[1].name = delivered[lastHeader].text
        /\ Len(currentCategoryRef[1].items) = Cardinality(itemLinesOfOpen)

\* C17: a summary line, at any position of the stream, sets the summary
\* to its three fields and changes nothing else: the committed categories
\* and the open category with its items stay as they are, and the item
\* lines after it still go to the category that was open before it.
C17_SummaryLineOnlySetsSummary == [][SummarySetsOnlySummary]_vars /\ []OpenCategoryKeepsItems

\* an item line was appended to the category opened before a summary line
C17_Witness ==
    /\ Len(scans) = 1 /\ scans[1].proc = "running"
    /\ \E h, s, n \in 1..Len(delivered) :
          /\ h = lastHeader /\ h < s /\ s < n
          /\ lineRule(delivered[s], TRUE) = "summary"
          /\ n \in itemLinesOfOpen
    /\ summary # <<>>
    /\ Len(currentCategoryRef[1].items) >= 1

\* every category the view holds: committed, shown or open
allCategories ==
    {categories[n] : n \in 1..Len(categories)} \cup {categoriesRef[n] : n \in 1..Len(categoriesRef)}
        \cup {currentCategoryRef[n] : n \in 1..Len(currentCategoryRef)}

hasSizeText(item) == item.size # NoSize

hasPositiveSize(item) == bytesPositive(parseSizeToBytes(item.size))

\* the total a category must show when the items that count are those in sized
totalOver(category, sized(_)) ==
    LET counted == SelectSeq(category.items, sized)
    IN  IF counted = <<>> THEN NoSize ELSE formatBytesShort(sumSizes(counted))

----------------------------------------------------------------------------
(***************************************************************************)
(* Properties of calculateSizes.                                           *)
(***************************************************************************)
inFlight == {k \in DOMAIN duProcs : duProcs[k] = "running"}

\* the number of the batch the item k belongs to
batchNo(k) == (k - 1) \div batchSize

\* C19: at most 10 du processes are in flight at any moment, and no
\* process of a batch has been started while a process of an earlier batch
\* has not settled, with a size or with a failure.
C19_BatchesOfTen ==
    /\ Cardinality(inFlight) <= batchSize
    /\ \A m, n \in DOMAIN duProcs :
          (batchNo(m) < batchNo(n) /\ duProcs[n] # "pending") => duProcs[m] \notin {"pending", "running"}

\* the second batch is in flight after a first batch of ten in which a
\* query failed
C19_Witness ==
    /\ Len(initialItems) > batchSize
    /\ duProcs[batchSize + 1] = "running"
    /\ \E k \in 1..batchSize : duProcs[k] = "failed"
    /\ \A k \in 1..batchSize : duProcs[k] \notin {"pending", "running"}

\* the record k is as its own query left it
OwnState(k) ==
    CASE duProcs[k] = "failed" -> viewItems[k].sizeBytes = <<>> /\ ~viewItems[k].isLoadingSize
      [] duProcs[k] = "sized" ->
            /\ viewItems[k].sizeBytes = <<duKb(initialItems, initialItems[k].path) * BYTES_PER_KB>>
            /\ ~viewItems[k].isLoadingSize
      [] duProcs[k] \in {"pending", "running"} -> viewItems[k].sizeBytes = <<>> /\ viewItems[k].isLoadingSize
      [] OTHER -> TRUE

\* a query has failed
SomeQueryFailed == \E k \in DOMAIN duProcs : duProcs[k] = "failed"

\* C20: when the size query of one path fails, that record is left with
\* sizeBytes unset and every other record keeps the size and state its own
\* query gave it; the rest of the batch and the later batches are still
\* queried, and the scan does not fail.
C20_FailureIsolated ==
    SomeQueryFailed =>
        /\ \A k \in DOMAIN duProcs : OwnState(k)
        /\ scanToast = ""
        /\ sizesPc = "done" => \A k \in DOMAIN duProcs : duProcs[k] \notin {"pending", "running"}

----------------------------------------------------------------------------
(***************************************************************************)
(* Properties of the walk over a given disk.                               *)
(***************************************************************************)
\* the names of path below the root the walk started from
belowRoot(path, walk) == SubSeq(path, Len(pgSearchPaths[walk]) + 1, Len(path))

\* Library, System, or a hidden directory whose name is not a target
protectedName(name) ==
    name \in {"Library", "System"} \/ (startsWithDot(name) /\ name \notin targetNames)

noProtected(names) == \A n \in 1..Len(names) : ~protectedName(names[n])

\* C21: a walk never reads and never reports anything below a directory
\* named Library or System or below a hidden directory that is not a
\* target; a hidden directory whose name is a target is reported where the
\* walk reads its parent; no reported path lies more than four levels
\* below the root of its walk.
C21_ProtectedSkippedDepthBounded ==
    /\ \A r \in pgReads : noProtected(belowRoot(r.dir, r.walk))
    /\ \A i \in 1..Len(pgItems) :
          /\ noProtected(belowRoot(pgItems[i].path, pgItems[i].walk))
          /\ Len(belowRoot(pgItems[i].path, pgItems[i].walk)) <= maxDepth
    /\ pgPhase = "done" =>
          \A r \in pgReads :
              Append(r.dir, ".next") \in fsTree =>
                  \E i \in 1..Len(pgItems) :
                      pgItems[i].path = Append(r.dir, ".next") /\ pgItems[i].walk = r.walk

\* the scan of app/app/app holding Library/node_modules and .next is over:
\* .next, four levels below HOME, is reported
C21_Witness ==
    /\ pgPhase = "done"
    /\ <<"app", "app", "app", "Library", "node_modules">> \in fsTree
    /\ \E i \in 1..Len(pgItems) : pgItems[i].path = <<"app", "app", "app", ".next">>
    /\ \A i \in 1..Len(pgItems) : pgItems[i].name # "node_modules"

----------------------------------------------------------------------------
(***************************************************************************)
(* Properties of the two size parsers.                                     *)
(***************************************************************************)
\* C22: parseSizeToBytes and parseSizeString return the same byte count
\* for every size string, also when the unit is none of B, KB, MB, GB, TB
\* and when text stands before the number.
C22_ParsersAgree == parsersPc = "done" => cleanBytes = uninstallBytes

----------------------------------------------------------------------------
(***************************************************************************)
(* Properties of getPathsForCategory.                                      *)
(***************************************************************************)
\* the positions of the section headers of the file
headerLines == {n \in 1..Len(listFile) : isSectionHeader(Trim(listFile[n]))}

\* the header the line n stands under, or 0
headerOf(n) ==
    LET hs == {h \in headerLines : h < n}
    IN  IF hs = {} THEN 0 ELSE CHOOSE h \in hs : \A g \in hs : g <= h

\* the header line holds the name of the category, in upper or lower case
namesCategory(line, categoryName) ==
    \E n \in 1..Len(line) :
        /\ toLowerCase(line[n]) = toLowerCase(categoryName)
        /\ \A m \in 1..Len(line) : m # n => line[m] \in {"===", " "}

\* the line n holds an existing absolute path, a comment after it or not,
\* in a section of the requested name
listsPath(n, path) ==
    /\ n \notin headerLines
    /\ headerOf(n) # 0
    /\ namesCategory(listFile[headerOf(n)], listCategory)
    /\ Trim(listFile[n]) # <<>> /\ Head(Trim(listFile[n])) # "#"
    /\ Trim(beforeHash(Trim(listFile[n]))) = <<path>>
    /\ path \in ListedPaths /\ path \in listDisk

\* the positions of the lines that list a path, in order
RECURSIVE expectedFrom(_)
expectedFrom(n) ==
    IF n > Len(listFile) THEN <<>>
    ELSE (IF \E p \in ListedPaths : listsPath(n, p)
          THEN <<CHOOSE p \in ListedPaths : listsPath(n, p)>> ELSE <<>>) \o expectedFrom(n + 1)

\* C23: getPathsForCategory returns exactly the existing absolute paths on
\* the lines, neither blank nor comments, of the sections whose header is
\* the requested name in any case, without their trailing comment; nothing
\* from another section or from before the first header; and nothing
\* when the file cannot be read.
C23_PathsOfTheSection ==
    listPc = "done" => listResult = IF listReadable THEN expectedFrom(1) ELSE <<>>

\* a path of the requested section is returned and one of another section
\* is not
C23_Witness ==
    /\ listPc = "done" /\ listReadable /\ listCategory = "Developer Tools"
    /\ listFile = << <<"===", " ", "Browser Caches", " ", "===">>, <<"/cache/chrome">>,
                     <<"===", "developer tools", "===">>, <<" ", "/cache/npm", " ", "#", " ", "note">> >>
    /\ listResult = <<"/cache/npm">>

\* the step is the return of the trash call made by the purge action i
PurgeTrashReturns(i) ==
    /\ calls[i].action \in {"purgeItem", "purgeAll"}
    /\ calls[i].pc = "trash"
    /\ calls'[i].pc = "returned"

\* what the list must be after the purge action i: as before when the
\* failure toast was shown, without the paths of the action otherwise
ListAfterPurge(i) ==
    /\ purgeItems' = IF calls'[i].inner = "Failure" THEN purgeItems ELSE purgeItems \ calls[i].paths
    /\ calls[i].paths \subseteq trashed' \/ calls'[i].inner = "Failure"
    /\ \A j \in CallIds : j # i => calls'[j] = calls[j]
    /\ UNCHANGED <<started, refreshes>>

\* C24: when the move to the trash fails inside a confirmed purgeItem or
\* purgeAll the list of discovered items is left as it was; when it
\* succeeds exactly the trashed path (purgeItem) or every listed path
\* (purgeAll) leaves the list, and nothing else changes.
C24_ListFollowsTrash == [][\A i \in CallIds : PurgeTrashReturns(i) => ListAfterPurge(i)]_vars

\* a purgeItem whose trash call failed has returned, its item still listed
\* next to the other one
C24_Witness ==
    \E i \in CallIds :
        /\ calls[i].action = "purgeItem" /\ calls[i].pc = "returned" /\ calls[i].inner = "Failure"
        /\ calls[i].paths \subseteq purgeItems
        /\ purgeItems = PurgePaths

\* C25: when the move to the trash fails inside a confirmed destructive
\* action, no success status is set for that action after the failure was
\* reported, neither by the handler nor by confirmAndExecute.
C25_FailureIsLastStatus ==
    \A i \in CallIds :
        (calls[i].action \in TrashActions \cup {"uninstallApp"} /\ calls[i].inner = "Failure") =>
            calls[i].outer # "Success"

\* C26: no onLine callback of an invocation is invoked after the promise
\* of that invocation has settled: the lines delivered are those delivered
\* when it settled.
C26_NoLineAfterSettled == smSettledAt # -1 => Len(smLines) = smSettledAt

----------------------------------------------------------------------------
(***************************************************************************)
(* Properties of parseDryRunDetailsOutput.                                 *)
(***************************************************************************)
\* the position of the nearest application line above the line n, or 0
appLineAbove(n) ==
    LET as == {m \in 1..(n - 1) : detailsOutput[m].glyph = "ARROW"}
    IN  IF as = {} THEN 0 ELSE CHOOSE m \in as : \A k \in as : k <= m

\* C27: every leftover line is attributed to the application of the
\* nearest application line above it: leftover lines after an application
\* line that did not parse go to no application, and so do leftover lines
\* above every application line.
C27_LeftoversOfNearestApp ==
    detailsPc = "done" =>
        \A a \in 1..Len(detailsFound) :
            \A f \in 1..Len(detailsFound[a].leftoverFiles) :
                appLineAbove(detailsFound[a].leftoverFiles[f].line) = detailsFound[a].line

----------------------------------------------------------------------------
(***************************************************************************)
(* Properties of the worker pool of one fetchApps run.                     *)
(***************************************************************************)
scansInFlight(f) == {w \in Workers : fetches[f].workers[w].state = "scanning"}

workersFinished(f) == fetches[f].pc = "scanning" /\ scansInFlight(f) = {}

timesScanned(f, app) == Cardinality({n \in 1..Len(fetches[f].scanned) : fetches[f].scanned[n] = app})

\* C28: in one fetchApps run at most five leftover scans are in flight, no
\* application is scanned twice or by two workers at once, and when all
\* workers have finished every application of the to-scan list has been
\* scanned once and none of them is left in scanningApps, whatever the
\* scans returned.
C28_EachAppScannedOnce ==
    \A f \in FetchIds :
        /\ Cardinality(scansInFlight(f)) <= CONCURRENCY_LIMIT
        /\ \A n \in 1..Len(fetches[f].toScan) :
              LET app == fetches[f].toScan[n]
                  running == {w \in scansInFlight(f) : fetches[f].workers[w].app = app}
              IN  /\ timesScanned(f, app) + Cardinality(running) <= 1
                  /\ workersFinished(f) => (timesScanned(f, app) = 1 /\ app \notin scanningApps)
        /\ Len(fetches[f].scanned) <= Len(fetches[f].toScan)

\* six applications and more were scanned by the five workers, one scan
\* found nothing, and all workers have finished
C28_Witness ==
    /\ Len(fetches) = 1 /\ workersFinished(1)
    /\ Len(fetches[1].toScan) > CONCURRENCY_LIMIT
    /\ \E p \in DOMAIN leftoversMap : leftoversMap[p].value = <<>>
    /\ \E p \in DOMAIN leftoversMap : leftoversMap[p].value # <<>>
    /\ scanningApps = {}


\* C29: once calculateSizes has gone through every batch no listed item is
\* still marked as loading its size, whether its query gave a size, gave
\* output that is no number, or failed.
C29_NoItemLeftLoading ==
    sizesPc = "done" => \A k \in DOMAIN viewItems : ~viewItems[k].isLoadingSize

----------------------------------------------------------------------------
(***************************************************************************)
(* Properties of the status view.                                          *)
(***************************************************************************)
\* the refresh calls whose collect() has not ended
collecting == {c \in RefreshIds : refreshCalls[c].pc = "collecting"}

\* at most one run in flight, and the flag is up exactly while one is
oneRunFlagged == Cardinality(collecting) <= 1 /\ (isFetchingRef <=> collecting # {})

\* a step that calls refresh: the call returns without collecting when a
\* run was in flight, and collects when none was
triggerFollowsRuns ==
    Len(refreshCalls') = Len(refreshCalls) + 1 =>
        refreshCalls'[Len(refreshCalls')].pc = (IF collecting # {} THEN "returned" ELSE "collecting")

\* C30: at most one collect() run is in flight at any time; a refresh
\* triggered by the interval or the user while one is running returns
\* without collecting; once a run has ended, resolved or rejected, the flag
\* is down and the next trigger collects again.
C30_OneCollectAtATime == []oneRunFlagged /\ [][triggerFollowsRuns]_vars

\* a run failed, a trigger during a run returned at once, and a later
\* trigger of the interval is collecting again
C30_Witness ==
    \E a, b, c \in RefreshIds :
        /\ a < c /\ refreshCalls[a].pc = "failed"
        /\ refreshCalls[b].pc = "returned" /\ refreshCalls[b].by = "user"
        /\ refreshCalls[c].pc = "collecting" /\ refreshCalls[c].by = "interval"
        /\ isFetchingRef
====
